---- MODULE Spec2Model ----
(***************************************************************************)
(* kiosk-app: the offline-first synchronisation core.                      *)
(*                                                                         *)
(* The Sync Engine (SyncService, sync.service.ts lines 294-624, the        *)
(* version wired to ApiStatusService) is modelled as a state machine.      *)
(* Every asynchronous completion (an HTTP response, the callback of an     *)
(* IndexedDB operation) is one action; everything the code does            *)
(* synchronously inside that callback belongs to the same action.          *)
(***************************************************************************)
EXTENDS Integers, Sequences, FiniteSets, Bags, TLC

(***************************************************************************)
(* Bounds of the model.                                                    *)
(***************************************************************************)
\* number of addToQueue calls the environment makes (each hands in another request)
MaxCalls == 2
\* operations on the failed collection are started while the key generator of
\* 'sync-queue' is at most MaxKey, at most MaxFailedOps of them at a time
MaxKey == 3
MaxFailedOps == 1
\* reachability probes in flight at a time
MaxProbes == 3
\* asynchronous operations of the Domain Record Services in flight at a time
MaxSvcTasks == 2
\* page indexes and page sizes a view asks for, and the order dates (in
\* milliseconds) of the cached sales; a day has DayLength milliseconds
MaxPage == 1
MaxPageSize == 2
MaxTime == 3
DayLength == 2

(***************************************************************************)
(* Values.                                                                 *)
(***************************************************************************)
\* QueuedRequest.id is optional: 0 stands for "absent" (falsy in the code)
NoId == 0
\* payload.tempId absent (falsy in `req.payload?.tempId`)
NoTempId == 0
\* dateRange.start / dateRange.end null, or dateRange absent
NoDate == -1
NoRange == [start |-> NoDate, end |-> NoDate]
\* Number(url.split('/').pop()) is NaN when the last segment is not a number
NaN == 0

StoreNames == {"products", "customers", "sales", "purchases"}

\* The last path segment of the resource, as the services build their URLs:
\* `${environment.apiUrl}/SalesOrder`, `${environment.apiUrl}/customers`.
Paths == {"SalesOrder", "customers", "products", "purchases"}

\* url.toLowerCase().includes(word), for environment.apiUrl = http://localhost:3000/api
LowerIncludes(url, word) ==
    \/ url.path = "SalesOrder" /\ word = "sales"
    \/ url.path = "customers" /\ word = "customers"
    \/ url.path = "products" /\ word = "products"
    \/ url.path = "purchases" /\ word = "purchases"

\* url.includes(word): case-sensitive, so ".../SalesOrder/1" does not include "sales"
Includes(url, word) ==
    \/ url.path = "customers" /\ word = "customers"
    \/ url.path = "products" /\ word = "products"
    \/ url.path = "purchases" /\ word = "purchases"

\* Number(req.url.split('/').pop())
LastSegmentNumber(url) == IF url.id = NoId THEN NaN ELSE url.id

Req(m, p, i, t) == [method |-> m, url |-> [path |-> p, id |-> i], tempId |-> t]

\* The requests the Domain Record Services hand to addToQueue:
\*   customer create (POST /customers, payload.tempId), sale create (POST /SalesOrder),
\*   customer update (PUT /customers/1), sale update (PUT /SalesOrder/1, payload.tempId = sale.id),
\*   sale delete (DELETE /SalesOrder/1)
Requests ==
    { Req("POST", "customers", NoId, -1),
      Req("POST", "SalesOrder", NoId, -2),
      Req("PUT", "customers", 1, NoTempId),
      Req("PUT", "SalesOrder", 1, 1),
      Req("DELETE", "SalesOrder", 1, 1) }

\* HTTP outcomes: 200 success; 0 transport failure; 503 server error; 404; 400
Statuses == {200, 0, 503, 404, 400}

\* the id the server assigns to a created record (order_id / id of the response)
ServerIds == {2}

VARIABLES
    online,                             \* online$ (the engine's reachability state)
    isProcessingQueue,
    queueProcessRequestedWhileRunning,
    syncQueue,                          \* IndexedDB store 'sync-queue', in key order
    failedQueue,                        \* IndexedDB store 'failed-sync-queue', in key order
    nextKey,                            \* key generator of 'sync-queue'
    stores,                             \* record stores: store name -> set of record ids
    runs,                               \* active subscriptions of processQueueOnce
    tasks,                              \* other asynchronous work in flight (a bag)
    pendingRequests,                    \* pendingRequests$ (observable view)
    failedRequests,                     \* failedRequests$ (observable view)
    refreshing,                         \* getAll reads of refreshQueues in flight
    httpEvent,                          \* what this step did on the wire
    handed,                             \* the requests handed to addToQueue so far
    navigatorOnLine,                    \* navigator.onLine (the local interface)
    apiOnline,                          \* ApiStatusService.online$ (the monitor's state)
    probes,                             \* reachability probes in flight (a bag of origins)
    seenOnline,                         \* the last value isOnline$() gave its subscriber
    monitorEvent,                       \* what this step did in the monitor
    server,                             \* the remote API's records: resource -> set of ids
    salesCache,                         \* SalesService.sales$ (ids of the cached sales)
    customersCache,                     \* CustomerService.customers$ (ids of the cached customers)
    edited,                             \* which copies of a record hold the user's edit
    svcTasks,                           \* asynchronous work of the services in flight (a bag)
    svcEvent,                           \* what this step did on the wire for a service
    pageFetch,                          \* the sales store's rows and the page last read from them
    accepted                            \* keys of the pending entries whose request a run saw succeed

engineVars == <<online, isProcessingQueue, queueProcessRequestedWhileRunning, syncQueue,
          failedQueue, nextKey, stores, runs, tasks, pendingRequests, failedRequests,
          refreshing, httpEvent, handed>>

monitorVars == <<navigatorOnLine, apiOnline, probes, seenOnline, monitorEvent>>

serviceVars == <<server, salesCache, customersCache, edited, svcTasks, svcEvent, pageFetch,
                accepted>>

\* everything outside the Sync Engine
outside == <<monitorVars, serviceVars>>

vars == <<engineVars, outside>>

(***************************************************************************)
(* Helpers on sequences kept in key order.                                 *)
(***************************************************************************)
RECURSIVE RemoveKey(_, _)
\* (mutant) the delete leaves the entry in the collection
RemoveKey_keepsEntry(q, k) == q

RemoveKey(q, k) ==
    IF q = <<>> THEN <<>>
    ELSE IF Head(q).id = k THEN RemoveKey(Tail(q), k)
    ELSE <<Head(q)>> \o RemoveKey(Tail(q), k)

RECURSIVE InsertByKey(_, _)
InsertByKey(q, e) ==
    IF q = <<>> THEN <<e>>
    ELSE IF Head(q).id = e.id THEN q          \* add() fails on an existing key
    ELSE IF Head(q).id > e.id THEN <<e>> \o q
    ELSE <<Head(q)>> \o InsertByKey(Tail(q), e)

Keys(q) == {q[i].id : i \in 1..Len(q)}

RemoveAt(s, i) == SubSeq(s, 1, i - 1) \o SubSeq(s, i + 1, Len(s))

NoReq == Req("-", "-", NoId, NoTempId)
NoEvent == [kind |-> "none", from |-> "-", key |-> NoId, req |-> NoReq, status |-> 200]
SendEvent(from, key, req) ==
    [kind |-> "send", from |-> from, key |-> key, req |-> req, status |-> 200]
RecvEvent(from, key, req, status) ==
    [kind |-> "recv", from |-> from, key |-> key, req |-> req, status |-> status]

\* asynchronous work in flight; `caller` tells a reconciliation started for a
\* queued request ("run") from one started by an immediate attempt ("imm")
TaskOf(kind, req, resp, caller) ==
    [kind |-> kind, req |-> req, resp |-> resp, caller |-> caller, snap |-> <<>>]
Task(kind, req, resp) == TaskOf(kind, req, resp, "-")
\* an operation on the failed collection in flight; `snap` holds the failed
\* entries it works on
FailedTask(kind, snap) ==
    [kind |-> kind, req |-> NoReq, resp |-> [id |-> NoId, order_id |-> NoId],
     caller |-> "-", snap |-> snap]
Add(bag, t) == bag (+) SetToBag({t})
Remove(bag, t) == bag (-) SetToBag({t})


(***************************************************************************)
(* The remote API's answer to a successful creation: the SalesOrder API    *)
(* returns a DTO keyed `order_id`, the other resources a record keyed `id`.*)
(* 0 stands for an absent field.                                           *)
(***************************************************************************)
NoResp == [id |-> NoId, order_id |-> NoId]
Response(req, sid) ==
    IF req.method # "POST" THEN NoResp
    ELSE IF req.url.path = "SalesOrder" THEN [id |-> NoId, order_id |-> sid]
    ELSE [id |-> sid, order_id |-> NoId]

Responses(req) == {Response(req, sid) : sid \in ServerIds}

(***************************************************************************)
(* Pure parts of SyncService.                                              *)
(***************************************************************************)
\* executeRequest: the store a successful POST with a tempId is reconciled in
\* ("" when the URL names no recognised resource, or nothing is to reconcile)
ReconcileStore(req) ==
    IF req.method = "POST" /\ req.tempId # NoTempId
    THEN IF LowerIncludes(req.url, "products") THEN "products"
         ELSE IF LowerIncludes(req.url, "customers") THEN "customers"
         ELSE IF LowerIncludes(req.url, "sales") THEN "sales"
         ELSE IF LowerIncludes(req.url, "purchases") THEN "purchases"
         ELSE ""
    ELSE ""

\* executeRequest's tap: the reconciliation it starts (handleSuccessfulPost's getByID)
executeRequest(req, resp, caller) ==
    IF ReconcileStore(req) # ""
    THEN SetToBag({TaskOf("reconGet", req, resp, caller)})
    ELSE EmptyBag

\* (mutant) the server record is stored as it came
normalizeServerRecordForStore_asIs(storeName, resp) == resp

\* normalizeServerRecordForStore: the record that is added to the store
normalizeServerRecordForStore(storeName, resp) ==
    IF resp = NoResp THEN resp
    ELSE IF storeName = "sales"
         THEN LET orderId == IF resp.order_id # NoId THEN resp.order_id ELSE resp.id
              IN [id |-> orderId,
                  order_id |-> IF resp.order_id # NoId THEN resp.order_id ELSE orderId]
         ELSE resp

\* (mutant) status 0 is not told apart from the other errors
handleSyncError_noTransportCheck(req, status) ==
    IF status >= 500 THEN "rethrow"
    ELSE IF status = 404 THEN "discard"
    ELSE "fail"

\* (mutant) a 5xx is not told apart from the other errors
handleSyncError_noServerErrorCheck(req, status) ==
    IF status = 0 THEN "rethrow"
    ELSE IF status = 404 THEN "discard"
    ELSE "fail"

\* (mutant) a 404 stops the run like a server error
handleSyncError_conflictAborts(req, status) ==
    IF status = 0 THEN "rethrow"
    ELSE IF status >= 500 THEN "rethrow"
    ELSE IF status = 404 THEN "rethrow"
    ELSE "fail"

\* (mutant) a rejected request is cleaned up like a 404
handleSyncError_dropsRejected(req, status) ==
    IF status = 0 THEN "rethrow"
    ELSE IF status >= 500 THEN "rethrow"
    ELSE "discard"

\* handleSyncError: what becomes of the queue entry for an error status
handleSyncError(req, status) ==
    IF status = 0 THEN "rethrow"
    ELSE IF status >= 500 THEN "rethrow"
    ELSE IF status = 404 THEN "discard"
    ELSE "fail"

\* handleSyncError, 404 branch: the local record deletion it fires and forgets
conflictDelete(req, status) ==
    IF status = 404 /\ req.method \in {"PUT", "PATCH"}
       /\ LastSegmentNumber(req.url) # NaN
    THEN SetToBag({Task("localDel", req, NoResp)})
    ELSE EmptyBag

\* the store and the id that deletion addresses
ConflictStore(req) == IF Includes(req.url, "products") THEN "products" ELSE "customers"
ConflictId(req) == LastSegmentNumber(req.url)

\* err?.message || 'An unknown error occurred during sync.'
ErrorMessage(status) == "Http failure response"

\* timestamp: new Date(), the moment the entry is moved to the failed collection
Timestamp == "new Date()"

NewRun == [phase |-> "getAll", snap |-> <<>>, pos |-> 0, status |-> 200]

\* (mutant) the isProcessingQueue guard is missing
processQueue_noGuard(on, ip, rr, rs) ==
    IF ~on THEN [ip |-> ip, rr |-> rr, rs |-> rs]
    ELSE [ip |-> TRUE, rr |-> FALSE, rs |-> Append(rs, NewRun)]

\* processQueue: the engine's flags and runs after the call
processQueue(on, ip, rr, rs) ==
    IF ~on THEN [ip |-> ip, rr |-> rr, rs |-> rs]
    ELSE IF ip THEN [ip |-> ip, rr |-> TRUE, rs |-> rs]
    ELSE [ip |-> TRUE, rr |-> FALSE, rs |-> Append(rs, NewRun)]

\* (mutant) the flag is not reset
finalize_staysProcessing(on, rr, rs) == [ip |-> TRUE, rr |-> rr, rs |-> rs]

\* (mutant) the requested rerun is forgotten
finalize_noRerun(on, rr, rs) == [ip |-> FALSE, rr |-> rr, rs |-> rs]

\* processQueue's finalize callback, once the run has been torn down
finalize(on, rr, rs) ==
    IF rr /\ on
    THEN processQueue(on, FALSE, FALSE, rs)
    ELSE [ip |-> FALSE, rr |-> rr, rs |-> rs]

\* (mutant) the reachability state is not consulted
addToQueue_alwaysExecute(on, req) == Task("exec", req, NoResp)

\* addToQueue: the asynchronous work the call starts
addToQueue(on, req) ==
    IF on THEN Task("exec", req, NoResp) ELSE Task("enqueue", req, NoResp)

\* (mutant) the request is queued although it was executed
addToQueue_next_enqueues(req, resp) ==
    executeRequest(req, resp, "imm") (+) SetToBag({Task("enqueue", req, NoResp)})

\* addToQueue, `next` of the immediate attempt: the work a success starts
\* (executeRequest's tap; "No queue write needed")
addToQueue_next(req, resp) == executeRequest(req, resp, "imm")

\* (mutant) the failed request is dropped
addToQueue_error_drops(req) == EmptyBag

\* addToQueue, `error` of the immediate attempt: enqueueRequest(request)
addToQueue_error(req) == SetToBag({Task("enqueue", req, NoResp)})

\* from(requests).pipe(concatMap(syncSingleRequest)): the position of the next
\* snapshot item that is executed, from k on (0: none left); an item without
\* an id completes at once
RECURSIVE NextPos(_, _)
\* (mutant) an item without an id is executed like the others
NextPos_executesAll(snap, k) == IF k > Len(snap) THEN 0 ELSE k

NextPos(snap, k) ==
    IF k > Len(snap) THEN 0
    ELSE IF snap[k].id = NoId THEN NextPos(snap, k + 1)
    ELSE k

\* (mutant) the snapshot is worked through newest first
processQueueOnce_newestFirst(requests) ==
    [k \in 1..Len(requests) |-> requests[Len(requests) + 1 - k]]

\* processQueueOnce: from(requests), the order the snapshot is worked through
processQueueOnce(requests) == requests

\* refreshQueues: both views are re-read
refreshQueues_pendingOnly == [pending |-> TRUE, failed |-> FALSE]

refreshQueues == [pending |-> TRUE, failed |-> TRUE]

\* retryFailedRequest: { url, method, payload } of the failed entry
Requeued(item) == item.req

\* (mutant) the entry is left in the failed collection
retryFailedRequest_keepsFailed(on, item) == SetToBag({addToQueue(on, Requeued(item))})

\* retryFailedRequest: the asynchronous work started by the call and by the
\* subscription to the observable it returns
retryFailedRequest(on, item) ==
    SetToBag({addToQueue(on, Requeued(item))})
        (+) SetToBag({FailedTask("failedDel", <<item>>)})

\* retryAllFailedRequests: reQueueOps, in the order of the failed entries
reQueueOps(failedRequests_, key) ==
    [k \in 1..Len(failedRequests_) |->
        [id |-> key + k - 1, req |-> Requeued(failedRequests_[k])]]

(***************************************************************************)
(* Initial state: the service has been constructed while the API is not    *)
(* reachable (a reachable start is the state after OnlineChange and the    *)
(* empty run it triggers).  The record stores hold what earlier sessions   *)
(* left: a server record 1, and the placeholders -1 and -2 of two offline  *)
(* creations, unless the user has deleted the placeholders locally.        *)
(***************************************************************************)
\* what a step of the monitor did: the handler that ran, whether it sent a
\* probe, the status a probe was answered with, the value checkNow produced
\* ("-" when none) and whether isOnline$() delivered a value
NoMonitorEvent ==
    [handler |-> "-", sent |-> FALSE, status |-> 200, produced |-> "-",
     delivered |-> FALSE]

\* the monitor, constructed with the local interface unavailable
MonitorOffline ==
    /\ navigatorOnLine = FALSE
    /\ apiOnline = FALSE
    /\ probes = EmptyBag
    /\ seenOnline = FALSE
    /\ monitorEvent = NoMonitorEvent

\* a step of a service on the wire: the operation, "send" or "recv", the status;
\* `returned` holds the savedOnline of the result the step emits to the caller
\* of saveSaleWithStatus / updateSaleWithStatus, if it emits one
NoSvcEvent ==
    [op |-> "-", id |-> NoId, kind |-> "none", status |-> 200, returned |-> {}]
SvcSend(op, id) ==
    [op |-> op, id |-> id, kind |-> "send", status |-> 200, returned |-> {}]
SvcRecv(op, id, status) ==
    [op |-> op, id |-> id, kind |-> "recv", status |-> status, returned |-> {}]

\* `of({ sale, savedOnline })` / `map(() => ({ sale, savedOnline }))`: the
\* step emits the result of the operation
Returning_savedOnlineAlways(ev, savedOnline) == [ev EXCEPT !.returned = {TRUE}]
Returning(ev, savedOnline) == [ev EXCEPT !.returned = {savedOnline}]
SvcReturn(op, id, savedOnline) ==
    [op |-> op, id |-> id, kind |-> "return", status |-> 200,
     returned |-> {savedOnline}]

\* updateSaleStatus emits the sale alone
ReturnsStatus(op) == op # "updateSaleStatus"

\* asynchronous work of a service: its kind, the record id it is about, the
\* records it carries
SvcTask(kind, id, items) == [kind |-> kind, id |-> id, items |-> items, op |-> "-"]

\* ... of the operation `op` of a service
OpTask(op, kind, id) == [kind |-> kind, id |-> id, items |-> <<>>, op |-> op]

\* no copy of any record holds an edit: `db` the durable stores, `cache` the
\* in-memory lists, `api` the remote API (pairs <<store name, id>>)
NoEdits == [db |-> {}, cache |-> {}, api |-> {}]

\* no page was asked for: `rows` is what getAll('sales') delivers, `asked`
\* whether fetchSalesPage was called, then its arguments and what it emitted
NoPage == [page |-> 0, pageSize |-> 0, totalCount |-> 0, totalPages |-> 0, items |-> <<>>]

NoPageFetch ==
    [rows |-> <<>>, asked |-> FALSE, pageIndex |-> 0, pageSize |-> 0, dateRange |-> NoRange,
     result |-> NoPage]

\* the services, constructed while the API is not reachable: the API holds
\* record 1 of each resource, loadInitialData has read the durable stores
\* into the caches
ServicesIdle(st) ==
    /\ server = [n \in {"sales", "customers"} |-> {1}]
    /\ salesCache = st["sales"]
    /\ customersCache = st["customers"]
    /\ edited = NoEdits
    /\ svcTasks = EmptyBag
    /\ svcEvent = NoSvcEvent
    /\ pageFetch = NoPageFetch
    /\ accepted = {}

OutsideInit == MonitorOffline /\ ServicesIdle(stores)

StoresWith(placeholders) ==
    [n \in StoreNames |->
        IF n = "customers" THEN IF placeholders THEN {-1, 1} ELSE {1}
        ELSE IF n = "sales" THEN IF placeholders THEN {-2, 1} ELSE {1}
        ELSE {}]

InitStores == {StoresWith(ph) : ph \in BOOLEAN}

EngineInit ==
    /\ online = FALSE
    /\ isProcessingQueue = FALSE
    /\ queueProcessRequestedWhileRunning = FALSE
    /\ syncQueue = <<>>
    /\ failedQueue = <<>>
    /\ nextKey = 1
    /\ stores \in InitStores
    /\ runs = <<>>
    /\ tasks = EmptyBag
    /\ pendingRequests = <<>>
    /\ failedRequests = <<>>
    /\ refreshing = [pending |-> FALSE, failed |-> FALSE]
    /\ httpEvent = NoEvent
    /\ handed = {}

Init == EngineInit /\ OutsideInit

(***************************************************************************)
(* Building blocks of the run's actions.                                   *)
(***************************************************************************)
\* the snapshot item the run is working on
CurrentEntry(r) == IF r.pos = 0 THEN [id |-> NoId, req |-> NoReq] ELSE r.snap[r.pos]

\* the run at index i ends (complete or error): finalize
EndRun(i) ==
    LET f == finalize(online, queueProcessRequestedWhileRunning, RemoveAt(runs, i))
    IN /\ isProcessingQueue' = f.ip
       /\ queueProcessRequestedWhileRunning' = f.rr
       /\ runs' = f.rs

\* the run at index i goes on with the snapshot items from position k
ContinueRun(i, snap, k) ==
    LET p == NextPos(snap, k)
    IN IF p = 0
       THEN EndRun(i) /\ httpEvent' = NoEvent
       ELSE /\ runs' = [runs EXCEPT ![i] =
                           [phase |-> "http", snap |-> snap, pos |-> p, status |-> 200]]
            /\ httpEvent' = SendEvent("run", snap[p].id, snap[p].req)
            /\ UNCHANGED <<isProcessingQueue, queueProcessRequestedWhileRunning>>

(***************************************************************************)
(* Actions.                                                                *)
(***************************************************************************)
\* the call addToQueue(request) itself
addToQueueCall(req) ==
    /\ Cardinality(handed) < MaxCalls
    /\ req \notin handed
    /\ handed' = handed \cup {req}
    /\ LET t == addToQueue(online, req)
       IN /\ tasks' = Add(tasks, t)
          /\ httpEvent' = IF t.kind = "exec" THEN SendEvent("imm", NoId, req) ELSE NoEvent

\* addToQueue(request), called by a Domain Record Service
AddToQueue(req) ==
    /\ addToQueueCall(req)
    /\ UNCHANGED <<online, isProcessingQueue, queueProcessRequestedWhileRunning, syncQueue,
                   failedQueue, nextKey, stores, runs, pendingRequests, failedRequests,
                   refreshing>>

\* addToQueue's subscriber: the immediate attempt is answered
ImmediateResponse(t, status, resp) ==
    /\ BagIn(t, tasks) /\ t.kind = "exec"
    /\ httpEvent' = RecvEvent("imm", NoId, t.req, status)
    /\ IF status = 200
       THEN /\ tasks' = Remove(tasks, t) (+) addToQueue_next(t.req, resp)
            /\ refreshing' = refreshQueues
       ELSE /\ tasks' = Remove(tasks, t) (+) addToQueue_error(t.req)
            /\ UNCHANGED refreshing
    /\ UNCHANGED <<online, isProcessingQueue, queueProcessRequestedWhileRunning, syncQueue,
                   failedQueue, nextKey, stores, runs, pendingRequests, failedRequests,
                   handed>>

\* enqueueRequest: dbService.add('sync-queue', request) completes
EnqueueDone(t) ==
    /\ BagIn(t, tasks) /\ t.kind = "enqueue"
    /\ syncQueue' = Append(syncQueue, [id |-> nextKey, req |-> t.req])
    /\ nextKey' = nextKey + 1
    /\ tasks' = Remove(tasks, t)
    /\ refreshing' = refreshQueues
    /\ httpEvent' = NoEvent
    /\ UNCHANGED <<online, isProcessingQueue, queueProcessRequestedWhileRunning,
                   failedQueue, stores, runs, pendingRequests, failedRequests, handed>>

\* refreshQueues: a getAll of 'sync-queue' delivers (others may still be in flight)
RefreshPendingDone ==
    /\ refreshing.pending
    /\ pendingRequests' = syncQueue
    /\ \E more \in BOOLEAN : refreshing' = [refreshing EXCEPT !.pending = more]
    /\ httpEvent' = NoEvent
    /\ UNCHANGED <<online, isProcessingQueue, queueProcessRequestedWhileRunning, syncQueue,
                   failedQueue, nextKey, stores, runs, tasks, failedRequests, handed>>

\* refreshQueues: a getAll of 'failed-sync-queue' delivers
RefreshFailedDone ==
    /\ refreshing.failed
    /\ failedRequests' = failedQueue
    /\ \E more \in BOOLEAN : refreshing' = [refreshing EXCEPT !.failed = more]
    /\ httpEvent' = NoEvent
    /\ UNCHANGED <<online, isProcessingQueue, queueProcessRequestedWhileRunning, syncQueue,
                   failedQueue, nextKey, stores, runs, tasks, pendingRequests, handed>>

\* processQueue(), called from outside while the engine is in any state
ProcessQueue ==
    /\ LET f == processQueue(online, isProcessingQueue,
                             queueProcessRequestedWhileRunning, runs)
       IN /\ isProcessingQueue' = f.ip
          /\ queueProcessRequestedWhileRunning' = f.rr
          /\ runs' = f.rs
    /\ httpEvent' = NoEvent
    /\ UNCHANGED <<online, syncQueue, failedQueue, nextKey, stores, tasks,
                   pendingRequests, failedRequests, refreshing, handed>>

\* (mutant) the queue is not processed when the API becomes reachable
onReachability_noProcessQueue(isOnline, ip, rr, rs) == [ip |-> ip, rr |-> rr, rs |-> rs]

\* init's subscriber after online$.next(isOnline): `if (isOnline)` processQueue()
onReachability(isOnline, ip, rr, rs) ==
    IF isOnline THEN processQueue(isOnline, ip, rr, rs)
    ELSE [ip |-> ip, rr |-> rr, rs |-> rs]

\* init's subscriber is given the value isOnline
OnlineDelivered(isOnline) ==
    /\ online' = isOnline
    /\ LET f == onReachability(isOnline, isProcessingQueue,
                               queueProcessRequestedWhileRunning, runs)
       IN /\ isProcessingQueue' = f.ip
          /\ queueProcessRequestedWhileRunning' = f.rr
          /\ runs' = f.rs
    /\ httpEvent' = NoEvent
    /\ UNCHANGED <<syncQueue, failedQueue, nextKey, stores, tasks,
                   pendingRequests, failedRequests, refreshing, handed>>

\* init's subscriber: the connectivity monitor delivers a changed value
OnlineChange == OnlineDelivered(~online)

\* processQueueOnce: the getAll of 'sync-queue' delivers the snapshot
RunSnapshot(i) ==
    /\ runs[i].phase = "getAll"
    /\ ContinueRun(i, processQueueOnce(syncQueue), 1)
    /\ UNCHANGED <<online, syncQueue, failedQueue, nextKey, stores, tasks,
                   pendingRequests, failedRequests, refreshing, handed>>

\* syncSingleRequest: the HTTP call of the current item is answered
RunHttpResponse(i, status, resp) ==
    /\ runs[i].phase = "http"
    /\ LET e == CurrentEntry(runs[i])
           h == handleSyncError(e.req, status)
       IN /\ httpEvent' = RecvEvent("run", e.id, e.req, status)
          /\ IF status = 200
             THEN /\ tasks' = tasks (+) executeRequest(e.req, resp, "run")
                  /\ runs' = [runs EXCEPT ![i].phase = "delOk"]
                  /\ UNCHANGED <<isProcessingQueue, queueProcessRequestedWhileRunning>>
             ELSE IF h = "rethrow"
             THEN /\ EndRun(i)
                  /\ UNCHANGED tasks
             ELSE IF h = "discard"
             THEN /\ tasks' = tasks (+) conflictDelete(e.req, status)
                  /\ runs' = [runs EXCEPT ![i].phase = "del404", ![i].status = status]
                  /\ UNCHANGED <<isProcessingQueue, queueProcessRequestedWhileRunning>>
             ELSE /\ runs' = [runs EXCEPT ![i].phase = "addFailed", ![i].status = status]
                  /\ UNCHANGED <<tasks, isProcessingQueue,
                                 queueProcessRequestedWhileRunning>>
    /\ UNCHANGED <<online, syncQueue, failedQueue, nextKey, stores,
                   pendingRequests, failedRequests, refreshing, handed>>

\* handleSyncError: dbService.add('failed-sync-queue', failedRequest) completes
RunFailedAdded(i) ==
    /\ runs[i].phase = "addFailed"
    /\ LET e == CurrentEntry(runs[i])
       IN failedQueue' = InsertByKey(failedQueue,
              [id |-> e.id, req |-> e.req, error |-> ErrorMessage(runs[i].status),
               timestamp |-> Timestamp])
    /\ runs' = [runs EXCEPT ![i].phase = "delFailed"]
    /\ httpEvent' = NoEvent
    /\ UNCHANGED <<online, isProcessingQueue, queueProcessRequestedWhileRunning, syncQueue,
                   nextKey, stores, tasks, pendingRequests, failedRequests, refreshing,
                   handed>>

\* dbService.delete('sync-queue', req.id) completes (after success, after a 404,
\* or after the move to the failed collection); the run goes on with the next item
RunEntryDeleted(i) ==
    /\ runs[i].phase \in {"delOk", "del404", "delFailed"}
    /\ syncQueue' = RemoveKey(syncQueue, CurrentEntry(runs[i]).id)
    /\ refreshing' = refreshQueues
    /\ ContinueRun(i, runs[i].snap, runs[i].pos + 1)
    /\ UNCHANGED <<online, failedQueue, nextKey, stores, tasks,
                   pendingRequests, failedRequests, handed>>

\* handleSuccessfulPost: dbService.getByID(storeName, tempId) delivers
ReconcileLookup(t) ==
    /\ BagIn(t, tasks) /\ t.kind = "reconGet"
    /\ tasks' = IF t.req.tempId \in stores[ReconcileStore(t.req)]
                THEN Add(Remove(tasks, t), TaskOf("reconDel", t.req, t.resp, t.caller))
                ELSE Remove(tasks, t)
    /\ httpEvent' = NoEvent
    /\ UNCHANGED <<online, isProcessingQueue, queueProcessRequestedWhileRunning, syncQueue,
                   failedQueue, nextKey, stores, runs, pendingRequests, failedRequests,
                   refreshing, handed>>

\* handleSuccessfulPost: dbService.delete(storeName, tempId) completes
ReconcileDeleted(t) ==
    /\ BagIn(t, tasks) /\ t.kind = "reconDel"
    /\ stores' = [stores EXCEPT ![ReconcileStore(t.req)] = @ \ {t.req.tempId}]
    /\ tasks' = Add(Remove(tasks, t), TaskOf("reconAdd", t.req, t.resp, t.caller))
    /\ httpEvent' = NoEvent
    /\ UNCHANGED <<online, isProcessingQueue, queueProcessRequestedWhileRunning, syncQueue,
                   failedQueue, nextKey, runs, pendingRequests, failedRequests,
                   refreshing, handed>>

\* handleSuccessfulPost: dbService.add(storeName, normalized) completes; the
\* record is keyed by its `id` (a record without one is not stored under a server id)
ReconcileAdded(t) ==
    /\ BagIn(t, tasks) /\ t.kind = "reconAdd"
    /\ LET sn == ReconcileStore(t.req)
           rec == normalizeServerRecordForStore(sn, t.resp)
       IN stores' = [stores EXCEPT ![sn] = IF rec.id = NoId THEN @ ELSE @ \cup {rec.id}]
    /\ tasks' = Remove(tasks, t)
    /\ httpEvent' = NoEvent
    /\ UNCHANGED <<online, isProcessingQueue, queueProcessRequestedWhileRunning, syncQueue,
                   failedQueue, nextKey, runs, pendingRequests, failedRequests,
                   refreshing, handed>>

\* handleSyncError: the fire-and-forget dbService.delete(storeName, id) completes
ConflictDeleted(t) ==
    /\ BagIn(t, tasks) /\ t.kind = "localDel"
    /\ stores' = [stores EXCEPT ![ConflictStore(t.req)] = @ \ {ConflictId(t.req)}]
    /\ tasks' = Remove(tasks, t)
    /\ httpEvent' = NoEvent
    /\ UNCHANGED <<online, isProcessingQueue, queueProcessRequestedWhileRunning, syncQueue,
                   failedQueue, nextKey, runs, pendingRequests, failedRequests,
                   refreshing, handed>>

(***************************************************************************)
(* Operations on the failed collection.                                    *)
(***************************************************************************)
FailedOps ==
    {t \in BagToSet(tasks) :
        t.kind \in {"failedDel", "retryAllGet", "retryAllAdd", "retryAllClear"}}

FailedOpAllowed ==
    /\ nextKey <= MaxKey
    /\ BagCardinality([t \in FailedOps |-> CopiesIn(t, tasks)]) < MaxFailedOps

\* retryFailedRequest(request), subscribed by the caller
RetryFailedRequest(k) ==
    /\ FailedOpAllowed
    /\ k \in 1..Len(failedQueue)
    /\ tasks' = tasks (+) retryFailedRequest(online, failedQueue[k])
    /\ httpEvent' = IF online THEN SendEvent("imm", NoId, Requeued(failedQueue[k]))
                    ELSE NoEvent
    /\ UNCHANGED <<online, isProcessingQueue, queueProcessRequestedWhileRunning, syncQueue,
                   failedQueue, nextKey, stores, runs, pendingRequests, failedRequests,
                   refreshing, handed>>

\* deleteFailedRequest(id), subscribed by the caller
DeleteFailedRequest(k) ==
    /\ FailedOpAllowed
    /\ k \in 1..Len(failedQueue)
    /\ tasks' = Add(tasks, FailedTask("failedDel", <<failedQueue[k]>>))
    /\ httpEvent' = NoEvent
    /\ UNCHANGED <<online, isProcessingQueue, queueProcessRequestedWhileRunning, syncQueue,
                   failedQueue, nextKey, stores, runs, pendingRequests, failedRequests,
                   refreshing, handed>>

\* dbService.delete('failed-sync-queue', id) completes; tap: refreshQueues
FailedDeleted(t) ==
    /\ BagIn(t, tasks) /\ t.kind = "failedDel"
    /\ failedQueue' = RemoveKey(failedQueue, t.snap[1].id)
    /\ tasks' = Remove(tasks, t)
    /\ refreshing' = refreshQueues
    /\ httpEvent' = NoEvent
    /\ UNCHANGED <<online, isProcessingQueue, queueProcessRequestedWhileRunning, syncQueue,
                   nextKey, stores, runs, pendingRequests, failedRequests, handed>>

\* retryAllFailedRequests(), subscribed by the caller: getAll is issued
RetryAllFailedRequests ==
    /\ FailedOpAllowed
    /\ tasks' = Add(tasks, FailedTask("retryAllGet", <<>>))
    /\ httpEvent' = NoEvent
    /\ UNCHANGED <<online, isProcessingQueue, queueProcessRequestedWhileRunning, syncQueue,
                   failedQueue, nextKey, stores, runs, pendingRequests, failedRequests,
                   refreshing, handed>>

\* retryAllFailedRequests: getAll('failed-sync-queue') delivers; bulkAdd is
\* issued, or, with nothing to retry, the operation ends (tap: refreshQueues)
RetryAllGot(t) ==
    /\ BagIn(t, tasks) /\ t.kind = "retryAllGet"
    /\ IF Len(failedQueue) = 0
       THEN /\ tasks' = Remove(tasks, t)
            /\ refreshing' = refreshQueues
       ELSE /\ tasks' = Add(Remove(tasks, t), FailedTask("retryAllAdd", failedQueue))
            /\ UNCHANGED refreshing
    /\ httpEvent' = NoEvent
    /\ UNCHANGED <<online, isProcessingQueue, queueProcessRequestedWhileRunning, syncQueue,
                   failedQueue, nextKey, stores, runs, pendingRequests, failedRequests,
                   handed>>

\* retryAllFailedRequests: bulkAdd('sync-queue', reQueueOps) completes; clear is issued
RetryAllAdded(t) ==
    /\ BagIn(t, tasks) /\ t.kind = "retryAllAdd"
    /\ syncQueue' = syncQueue \o reQueueOps(t.snap, nextKey)
    /\ nextKey' = nextKey + Len(t.snap)
    /\ tasks' = Add(Remove(tasks, t), FailedTask("retryAllClear", t.snap))
    /\ httpEvent' = NoEvent
    /\ UNCHANGED <<online, isProcessingQueue, queueProcessRequestedWhileRunning,
                   failedQueue, stores, runs, pendingRequests, failedRequests,
                   refreshing, handed>>

\* retryAllFailedRequests: clear('failed-sync-queue') completes; tap: refreshQueues
RetryAllCleared(t) ==
    /\ BagIn(t, tasks) /\ t.kind = "retryAllClear"
    /\ failedQueue' = <<>>
    /\ tasks' = Remove(tasks, t)
    /\ refreshing' = refreshQueues
    /\ httpEvent' = NoEvent
    /\ UNCHANGED <<online, isProcessingQueue, queueProcessRequestedWhileRunning, syncQueue,
                   nextKey, stores, runs, pendingRequests, failedRequests, handed>>

(***************************************************************************)
(* The engine.  The observable views (pendingRequests, failedRequests) are *)
(* written by the two refresh deliveries only and read by no action, so    *)
(* the engine's behaviour does not depend on when they are delivered:      *)
(* Spec leaves the deliveries out, SpecViews has them.                     *)
(***************************************************************************)
EngineSteps ==
    \/ /\ \E t \in BagToSet(tasks), status \in Statuses :
             \E resp \in Responses(t.req) : ImmediateResponse(t, status, resp)
       /\ UNCHANGED outside
    \/ /\ \E t \in BagToSet(tasks) : EnqueueDone(t)
       /\ UNCHANGED outside
    \/ ProcessQueue /\ UNCHANGED outside
    \/ OnlineChange /\ UNCHANGED outside
    \/ /\ \E i \in 1..Len(runs) : RunSnapshot(i)
       /\ UNCHANGED outside
    \/ /\ \E i \in 1..Len(runs), status \in Statuses :
             \E resp \in Responses(CurrentEntry(runs[i]).req) :
                RunHttpResponse(i, status, resp)
       /\ UNCHANGED outside
    \/ /\ \E i \in 1..Len(runs) : RunFailedAdded(i)
       /\ UNCHANGED outside
    \/ /\ \E i \in 1..Len(runs) : RunEntryDeleted(i)
       /\ UNCHANGED outside
    \/ /\ \E t \in BagToSet(tasks) : ReconcileLookup(t)
       /\ UNCHANGED outside
    \/ /\ \E t \in BagToSet(tasks) : ReconcileDeleted(t)
       /\ UNCHANGED outside
    \/ /\ \E t \in BagToSet(tasks) : ReconcileAdded(t)
       /\ UNCHANGED outside
    \/ /\ \E t \in BagToSet(tasks) : ConflictDeleted(t)
       /\ UNCHANGED outside

Next ==
    \/ /\ \E req \in Requests : AddToQueue(req)
       /\ UNCHANGED outside
    \/ EngineSteps

Spec == Init /\ [][Next]_vars

NextViews ==
    \/ Next
    \/ RefreshPendingDone /\ UNCHANGED outside
    \/ RefreshFailedDone /\ UNCHANGED outside

SpecViews == Init /\ [][NextViews]_vars

(***************************************************************************)
(* The engine handed requests that target one record: an update and a      *)
(* delete of customer 1, besides the creation of a customer.               *)
(***************************************************************************)
SameRecordRequests ==
    { Req("PUT", "customers", 1, NoTempId),
      Req("DELETE", "customers", 1, NoTempId),
      Req("POST", "customers", NoId, -1) }

NextSameRecord ==
    \/ /\ \E req \in SameRecordRequests : AddToQueue(req)
       /\ UNCHANGED outside
    \/ EngineSteps

SpecSameRecord == Init /\ [][NextSameRecord]_vars

(***************************************************************************)
(* The engine with its failed collection in use.  The durable collections  *)
(* outlive the service: it is constructed with two entries that earlier    *)
(* runs moved to the failed collection (keys 1 and 2 of 'sync-queue').     *)
(***************************************************************************)
FailedAtStart ==
    << [id |-> 1, req |-> Req("PUT", "customers", 1, NoTempId),
        error |-> ErrorMessage(400), timestamp |-> Timestamp],
       [id |-> 2, req |-> Req("POST", "customers", NoId, -1),
        error |-> ErrorMessage(400), timestamp |-> Timestamp] >>

InitRetry ==
    /\ online = FALSE
    /\ isProcessingQueue = FALSE
    /\ queueProcessRequestedWhileRunning = FALSE
    /\ syncQueue = <<>>
    /\ failedQueue = FailedAtStart
    /\ nextKey = 3
    /\ stores = StoresWith(TRUE)
    /\ runs = <<>>
    /\ tasks = EmptyBag
    /\ pendingRequests = <<>>
    /\ failedRequests = <<>>
    /\ refreshing = [pending |-> FALSE, failed |-> FALSE]
    /\ httpEvent = NoEvent
    /\ handed = {}
    /\ OutsideInit

NextRetry ==
    \/ /\ \E k \in 1..Len(failedQueue) : RetryFailedRequest(k)
       /\ UNCHANGED outside
    \/ /\ \E k \in 1..Len(failedQueue) : DeleteFailedRequest(k)
       /\ UNCHANGED outside
    \/ RetryAllFailedRequests /\ UNCHANGED outside
    \/ /\ \E t \in BagToSet(tasks) : FailedDeleted(t)
       /\ UNCHANGED outside
    \/ /\ \E t \in BagToSet(tasks) : RetryAllGot(t)
       /\ UNCHANGED outside
    \/ /\ \E t \in BagToSet(tasks) : RetryAllAdded(t)
       /\ UNCHANGED outside
    \/ /\ \E t \in BagToSet(tasks) : RetryAllCleared(t)
       /\ UNCHANGED outside
    \/ EngineSteps

SpecRetry == InitRetry /\ [][NextRetry]_vars

(***************************************************************************)
(* The Connectivity Monitor (ApiStatusService).                            *)
(***************************************************************************)
\* HTTP outcomes of the probe: 200, 404, 503; 0 is a transport failure
ProbeStatuses == {200, 404, 503, 0}

\* who sent a probe: the constructor's handler of browser events, the
\* periodic poll, a caller of checkNow
ProbeOrigins == {"event", "timer", "check"}

\* (mutant) repeats are passed on
distinctUntilChanged_passAll(last, v) == TRUE

\* distinctUntilChanged: a value is passed on when it differs from the last one
distinctUntilChanged(last, v) == v # last

\* (mutant) an error status counts as unreachable
reachable_errorsOffline(status) == status \in 200..299

\* checkNow: any HTTP response means reachable; `err?.status !== 0` otherwise
reachable(status) == IF status \in 200..299 THEN TRUE ELSE status # 0

\* `!navigator.onLine`: the short-circuit of checkNow and of the poll
interfaceDown(onLine) == ~onLine

\* online$.next(v), and what isOnline$() passes on to its subscriber
OnlineNext(v, ev) ==
    /\ apiOnline' = v
    /\ seenOnline' = v
    /\ monitorEvent' = [ev EXCEPT !.delivered = distinctUntilChanged(seenOnline, v)]

\* checkNow(), subscribed: short-circuit, or a probe from `origin` is sent
CheckNowFrom(origin, onLine, bag, ev) ==
    IF interfaceDown(onLine)
    THEN /\ OnlineNext(FALSE, [ev EXCEPT !.produced = {FALSE}])
         /\ probes' = bag
    ELSE /\ BagCardinality(bag) < MaxProbes
         /\ probes' = Add(bag, origin)
         /\ monitorEvent' = [ev EXCEPT !.sent = TRUE]
         /\ UNCHANGED <<apiOnline, seenOnline>>

\* window 'online': the interface is back; the constructor's handler re-checks
WindowOnline ==
    /\ ~navigatorOnLine
    /\ navigatorOnLine' = TRUE
    /\ CheckNowFrom("event", TRUE, probes, [NoMonitorEvent EXCEPT !.handler = "online"])

\* window 'offline': the constructor's handler sets the state without probing
WindowOffline ==
    /\ navigatorOnLine
    /\ navigatorOnLine' = FALSE
    /\ OnlineNext(FALSE, [NoMonitorEvent EXCEPT !.handler = "offline"])
    /\ UNCHANGED probes

\* the periodic poll: switchMap drops the previous poll's probe, then
\* `navigator.onLine ? this.checkNow() : of(false)`
TimerTick ==
    LET kept == probes (-) SetToBag({"timer"})
        ev == [NoMonitorEvent EXCEPT !.handler = "tick"]
    IN /\ IF interfaceDown(navigatorOnLine)
          THEN /\ probes' = kept
               /\ monitorEvent' = [ev EXCEPT !.produced = {FALSE}]
               /\ UNCHANGED <<apiOnline, seenOnline>>
          ELSE CheckNowFrom("timer", navigatorOnLine, kept, ev)
       /\ UNCHANGED navigatorOnLine

\* checkNow(), called and subscribed by another component
CheckNow ==
    /\ CheckNowFrom("check", navigatorOnLine, probes,
                    [NoMonitorEvent EXCEPT !.handler = "checkNow"])
    /\ UNCHANGED navigatorOnLine

\* checkNow: the probe is answered (map / catchError)
ProbeAnswered(origin, status) ==
    /\ BagIn(origin, probes)
    /\ probes' = Remove(probes, origin)
    /\ OnlineNext(reachable(status),
                  [NoMonitorEvent EXCEPT !.handler = "probe", !.status = status,
                                         !.produced = {reachable(status)}])
    /\ UNCHANGED navigatorOnLine

\* the monitor after construction: online$ starts as navigator.onLine, the
\* constructor's handler has run for of(navigator.onLine), the subscriber
\* of isOnline$() has been given the current value
InitMonitor ==
    /\ EngineInit /\ stores = StoresWith(TRUE)
    /\ navigatorOnLine \in BOOLEAN
    /\ apiOnline = navigatorOnLine
    /\ probes = IF navigatorOnLine THEN SetToBag({"event"}) ELSE EmptyBag
    /\ seenOnline = apiOnline
    /\ monitorEvent = NoMonitorEvent
    /\ ServicesIdle(stores)

NextMonitor ==
    \/ WindowOnline /\ UNCHANGED <<engineVars, serviceVars>>
    \/ WindowOffline /\ UNCHANGED <<engineVars, serviceVars>>
    \/ TimerTick /\ UNCHANGED <<engineVars, serviceVars>>
    \/ CheckNow /\ UNCHANGED <<engineVars, serviceVars>>
    \/ /\ \E origin \in ProbeOrigins, status \in ProbeStatuses :
             ProbeAnswered(origin, status)
       /\ UNCHANGED <<engineVars, serviceVars>>

SpecMonitor == InitMonitor /\ [][NextMonitor]_vars

(***************************************************************************)
(* The remote API, as far as the services and the engine depend on it: an  *)
(* accepted POST creates the record under the id of the response, an       *)
(* accepted PUT or PATCH stores the edit, an accepted DELETE removes the   *)
(* record.                                                                 *)
(***************************************************************************)
Resource(url) == IF url.path = "SalesOrder" THEN "sales" ELSE url.path

NewId(resp) == IF resp.order_id # NoId THEN resp.order_id ELSE resp.id

Accept(srv, req, resp) ==
    IF Resource(req.url) \notin DOMAIN srv THEN srv
    ELSE IF req.method = "POST"
    THEN [srv EXCEPT ![Resource(req.url)] = @ \cup {NewId(resp)}]
    ELSE IF req.method = "DELETE"
    THEN [srv EXCEPT ![Resource(req.url)] = @ \ {req.url.id}]
    ELSE srv

AcceptEdit(ed, req) ==
    IF req.method \in {"PUT", "PATCH"}
    THEN [ed EXCEPT !.api = @ \cup {<<Resource(req.url), req.url.id>>}]
    ELSE ed

\* the API answers `status` to req: what it holds afterwards
Served(req, status, resp) ==
    /\ server' = IF status = 200 THEN Accept(server, req, resp) ELSE server
    /\ edited' = IF status = 200 THEN AcceptEdit(edited, req) ELSE edited

\* the copies of the records `ids` of store n taken from the API: they hold
\* the edit where the API does
FromApi(pairs, n, ids) ==
    {pr \in pairs : pr[1] # n \/ pr[2] \notin ids}
        \cup {pr \in edited.api : pr[1] = n /\ pr[2] \in ids}

\* a set of ids as a list in ascending order
RECURSIVE Ascending(_)
Ascending(ids) ==
    IF ids = {} THEN <<>>
    ELSE LET m == CHOOSE x \in ids : \A y \in ids : x <= y
         IN <<m>> \o Ascending(ids \ {m})

(***************************************************************************)
(* SalesService.                                                           *)
(***************************************************************************)
\* outcomes of the HTTP calls a service makes itself: success, no response, or
\* a rejection
SvcStatuses == {200, 0, 400}

\* tempId = -Date.now() of a sale created in this session
TempSaleIds == {-2}

\* the sale the user edits: a record downloaded from the API
EditedSales == {1}

\* the requests SalesService hands to addToQueue
SaleCreate(tempId) == Req("POST", "SalesOrder", NoId, tempId)
SaleUpdate(op, id) ==
    IF op = "updateSaleWithStatus" THEN Req("PUT", "SalesOrder", id, id)
    ELSE Req("PATCH", "SalesOrder", id, NoTempId)

SvcRoom == BagCardinality(svcTasks) < MaxSvcTasks

\* the constructor's subscriber of isOnline$(): `if (isOnline)` syncWithApi
salesOnReachability(isOnline) == isOnline

\* the monitor's state changes and isOnline$() tells its subscribers: the
\* Sync Engine (init) and SalesService (constructor)
ReachabilityChange ==
    /\ OnlineNext(~apiOnline, [NoMonitorEvent EXCEPT !.handler = "change"])
    /\ UNCHANGED <<navigatorOnLine, probes>>
    /\ OnlineChange
    /\ IF salesOnReachability(apiOnline')
       THEN /\ SvcRoom
            /\ svcTasks' = Add(svcTasks, SvcTask("salesFetch", NoId, <<>>))
            /\ svcEvent' = SvcSend("syncSales", NoId)
       ELSE /\ UNCHANGED svcTasks
            /\ svcEvent' = NoSvcEvent
    /\ UNCHANGED <<server, salesCache, customersCache, edited, pageFetch, accepted>>

\* syncWithApi: the GET of the first page is answered; the items are cached
\* in the durable store (upsertSalesToIndexedDb) and replace sales$
SalesFetched(t, status) ==
    /\ BagIn(t, svcTasks) /\ t.kind = "salesFetch"
    /\ svcEvent' = SvcRecv("syncSales", NoId, status)
    /\ IF status = 200
       THEN LET items == server["sales"]
                kept == {i \in items : i > 0}
            IN /\ svcTasks' = IF kept = {} THEN Remove(svcTasks, t)
                              ELSE Add(Remove(svcTasks, t),
                                       SvcTask("salesUpsert", NoId, Ascending(kept)))
               /\ salesCache' = items
               /\ edited' = [edited EXCEPT !.cache = FromApi(@, "sales", items)]
       ELSE /\ svcTasks' = Remove(svcTasks, t)
            /\ UNCHANGED <<salesCache, edited>>
    /\ httpEvent' = NoEvent /\ monitorEvent' = NoMonitorEvent
    /\ UNCHANGED <<online, isProcessingQueue, queueProcessRequestedWhileRunning, syncQueue,
                   failedQueue, nextKey, stores, runs, tasks, pendingRequests,
                   failedRequests, refreshing, handed>>
    /\ UNCHANGED <<navigatorOnLine, apiOnline, probes, seenOnline, server, customersCache,
                   pageFetch, accepted>>

\* upsertSalesToIndexedDb: dbService.update('sales', sale) of the next item completes
SalesUpserted(t) ==
    /\ BagIn(t, svcTasks) /\ t.kind = "salesUpsert"
    /\ LET id == Head(t.items)
       IN /\ stores' = [stores EXCEPT !["sales"] = @ \cup {id}]
          /\ edited' = [edited EXCEPT !.db = FromApi(@, "sales", {id})]
    /\ svcTasks' = IF Len(t.items) = 1 THEN Remove(svcTasks, t)
                   ELSE Add(Remove(svcTasks, t), SvcTask("salesUpsert", NoId, Tail(t.items)))
    /\ httpEvent' = NoEvent /\ monitorEvent' = NoMonitorEvent /\ svcEvent' = NoSvcEvent
    /\ UNCHANGED <<online, isProcessingQueue, queueProcessRequestedWhileRunning, syncQueue,
                   failedQueue, nextKey, runs, tasks, pendingRequests,
                   failedRequests, refreshing, handed>>
    /\ UNCHANGED <<navigatorOnLine, apiOnline, probes, seenOnline, server, salesCache,
                   customersCache, pageFetch, accepted>>

\* the service steps leave the Sync Engine alone, but for the variables named
EngineKeeps(changed) ==
    /\ "online" \in changed \/ UNCHANGED online
    /\ "runs" \in changed
         \/ UNCHANGED <<isProcessingQueue, queueProcessRequestedWhileRunning, runs>>
    /\ "stores" \in changed \/ UNCHANGED stores
    /\ "tasks" \in changed \/ (UNCHANGED <<tasks, handed>> /\ httpEvent' = NoEvent)
    /\ UNCHANGED <<syncQueue, failedQueue, nextKey, pendingRequests, failedRequests,
                   refreshing>>

\* ... and the monitor
MonitorKeeps ==
    /\ monitorEvent' = NoMonitorEvent
    /\ UNCHANGED <<navigatorOnLine, apiOnline, probes, seenOnline, pageFetch,
                   accepted>>

\* saveSaleWithStatus(saleData) is subscribed: dbService.add of the temp sale
SaveSale(tempId) ==
    /\ SvcRoom
    /\ tempId \notin stores["sales"]
    /\ \A t \in BagToSet(svcTasks) : t.id # tempId
    /\ SaleCreate(tempId) \notin handed
    /\ svcTasks' = Add(svcTasks, SvcTask("saleAdd", tempId, <<>>))
    /\ svcEvent' = NoSvcEvent
    /\ EngineKeeps({}) /\ MonitorKeeps
    /\ UNCHANGED <<server, salesCache, customersCache, edited>>

\* saveSaleWithStatus: the add completed; the temp sale joins sales$, then the
\* POST is queued (not reachable) or sent
SaleAdded(t) ==
    /\ BagIn(t, svcTasks) /\ t.kind = "saleAdd"
    /\ stores' = [stores EXCEPT !["sales"] = @ \cup {t.id}]
    /\ salesCache' = salesCache \cup {t.id}
    /\ IF ~apiOnline
       THEN /\ addToQueueCall(SaleCreate(t.id))
            /\ svcTasks' = Remove(svcTasks, t)
            /\ svcEvent' = SvcReturn("saveSale", t.id, FALSE)
            /\ EngineKeeps({"stores", "tasks"})
       ELSE /\ svcTasks' = Add(Remove(svcTasks, t), SvcTask("salePost", t.id, <<>>))
            /\ svcEvent' = SvcSend("saveSale", t.id)
            /\ EngineKeeps({"stores"})
    /\ MonitorKeeps
    /\ UNCHANGED <<server, customersCache, edited>>

\* saveSaleWithStatus: the POST is answered; with an id the temp record gets
\* its order_id (dbService.update), on an error the POST is queued
SalePostAnswered(t, status, resp) ==
    /\ BagIn(t, svcTasks) /\ t.kind = "salePost"
    /\ Served(SaleCreate(t.id), status, resp)
    /\ IF status = 200
       THEN /\ IF NewId(resp) # NoId
               THEN /\ svcTasks' = Add(Remove(svcTasks, t),
                                       SvcTask("saleOrderId", t.id, <<>>))
                    /\ svcEvent' = SvcRecv("saveSale", t.id, status)
               ELSE /\ svcTasks' = Remove(svcTasks, t)
                    /\ svcEvent' = Returning(SvcRecv("saveSale", t.id, status), TRUE)
            /\ EngineKeeps({})
       ELSE /\ addToQueueCall(SaleCreate(t.id))
            /\ svcTasks' = Remove(svcTasks, t)
            /\ svcEvent' = Returning(SvcRecv("saveSale", t.id, status), FALSE)
            /\ EngineKeeps({"tasks"})
    /\ MonitorKeeps
    /\ UNCHANGED <<salesCache, customersCache>>

\* saveSaleWithStatus: the update of the temp record with its order_id completed
SaleOrderIdStored(t) ==
    /\ BagIn(t, svcTasks) /\ t.kind = "saleOrderId"
    /\ stores' = [stores EXCEPT !["sales"] = @ \cup {t.id}]
    /\ svcTasks' = Remove(svcTasks, t)
    /\ svcEvent' = SvcReturn("saveSale", t.id, TRUE)
    /\ EngineKeeps({"stores"}) /\ MonitorKeeps
    /\ UNCHANGED <<server, salesCache, customersCache, edited>>

\* the Sync Engine's steps beside the services: its HTTP calls reach the API
ServicesKeep ==
    /\ svcEvent' = NoSvcEvent
    /\ UNCHANGED <<salesCache, customersCache, svcTasks>>

EngineBesideServices ==
    \/ /\ \E t \in BagToSet(tasks), status \in Statuses :
             \E resp \in Responses(t.req) :
                ImmediateResponse(t, status, resp) /\ Served(t.req, status, resp)
       /\ ServicesKeep /\ MonitorKeeps
    \/ /\ \E t \in BagToSet(tasks) : EnqueueDone(t)
       /\ ServicesKeep /\ MonitorKeeps /\ UNCHANGED <<server, edited>>
    \/ /\ \E i \in 1..Len(runs) : RunSnapshot(i)
       /\ ServicesKeep /\ MonitorKeeps /\ UNCHANGED <<server, edited>>
    \/ /\ \E i \in 1..Len(runs), status \in Statuses :
             \E resp \in Responses(CurrentEntry(runs[i]).req) :
                /\ RunHttpResponse(i, status, resp)
                /\ Served(CurrentEntry(runs[i]).req, status, resp)
       /\ ServicesKeep /\ MonitorKeeps
    \/ /\ \E i \in 1..Len(runs) : RunFailedAdded(i)
       /\ ServicesKeep /\ MonitorKeeps /\ UNCHANGED <<server, edited>>
    \/ /\ \E i \in 1..Len(runs) : RunEntryDeleted(i)
       /\ ServicesKeep /\ MonitorKeeps /\ UNCHANGED <<server, edited>>
    \/ /\ \E t \in BagToSet(tasks) : ReconcileLookup(t)
       /\ ServicesKeep /\ MonitorKeeps /\ UNCHANGED <<server, edited>>
    \/ /\ \E t \in BagToSet(tasks) : ReconcileDeleted(t)
       /\ ServicesKeep /\ MonitorKeeps /\ UNCHANGED <<server, edited>>
    \/ /\ \E t \in BagToSet(tasks) : ReconcileAdded(t)
       /\ ServicesKeep /\ MonitorKeeps /\ UNCHANGED <<server, edited>>

\* the services are constructed while the API
\* is not reachable, over stores holding the downloaded records
InitSales ==
    /\ EngineInit
    /\ stores = StoresWith(FALSE)
    /\ OutsideInit

\* the update operations of SalesService
SaleUpdateOps == {"updateSaleWithStatus", "updateSaleStatus"}

\* the record <<store, id>> as the user edited it is written to the store, and
\* to the cached list if the list holds the record (findIndex)
WriteEdit(ed, n, id, cache) ==
    [ed EXCEPT !.db = @ \cup {<<n, id>>},
               !.cache = IF id \in cache THEN @ \cup {<<n, id>>} ELSE @]

\* updateSaleWithStatus(sale) / updateSaleStatus(sale, status) is subscribed:
\* dbService.update of the edited sale
UpdateSale(op, id) ==
    /\ SvcRoom
    /\ \A t \in BagToSet(svcTasks) : t.op # op
    /\ SaleUpdate(op, id) \notin handed
    /\ svcTasks' = Add(svcTasks, OpTask(op, "saleWrite", id))
    /\ svcEvent' = NoSvcEvent
    /\ EngineKeeps({}) /\ MonitorKeeps
    /\ UNCHANGED <<server, salesCache, customersCache, edited>>

\* the update completed: the edited sale replaces its cached copy, then the
\* PUT / PATCH is queued (not reachable) or sent
SaleWritten(t) ==
    /\ BagIn(t, svcTasks) /\ t.kind = "saleWrite"
    /\ stores' = [stores EXCEPT !["sales"] = @ \cup {t.id}]
    /\ edited' = WriteEdit(edited, "sales", t.id, salesCache)
    /\ IF ~apiOnline
       THEN /\ addToQueueCall(SaleUpdate(t.op, t.id))
            /\ svcTasks' = Remove(svcTasks, t)
            /\ svcEvent' = IF ReturnsStatus(t.op) THEN SvcReturn(t.op, t.id, FALSE)
                           ELSE NoSvcEvent
            /\ EngineKeeps({"stores", "tasks"})
       ELSE /\ svcTasks' = Add(Remove(svcTasks, t), OpTask(t.op, "saleHttp", t.id))
            /\ svcEvent' = SvcSend(t.op, t.id)
            /\ EngineKeeps({"stores"})
    /\ MonitorKeeps
    /\ UNCHANGED <<server, salesCache, customersCache>>

\* the PUT / PATCH is answered; on an error the request is queued
SaleUpdateAnswered(t, status) ==
    /\ BagIn(t, svcTasks) /\ t.kind = "saleHttp"
    /\ svcEvent' = IF ReturnsStatus(t.op)
                   THEN Returning(SvcRecv(t.op, t.id, status), status = 200)
                   ELSE SvcRecv(t.op, t.id, status)
    /\ Served(SaleUpdate(t.op, t.id), status, NoResp)
    /\ svcTasks' = Remove(svcTasks, t)
    /\ IF status = 200
       THEN EngineKeeps({})
       ELSE addToQueueCall(SaleUpdate(t.op, t.id)) /\ EngineKeeps({"tasks"})
    /\ MonitorKeeps
    /\ UNCHANGED <<salesCache, customersCache>>

(***************************************************************************)
(* CustomerService.                                                        *)
(***************************************************************************)
\* the customer the user edits: a record downloaded from the API
EditedCustomers == {1}

CustomerUpdate(id) == Req("PUT", "customers", id, NoTempId)

\* updateCustomer(updatedCustomer) is subscribed: reachable, the PUT is sent;
\* not reachable, the PUT is queued and dbService.update is issued
UpdateCustomer(id) ==
    /\ SvcRoom
    /\ \A t \in BagToSet(svcTasks) : t.op # "updateCustomer"
    /\ CustomerUpdate(id) \notin handed
    /\ IF apiOnline
       THEN /\ svcTasks' = Add(svcTasks, OpTask("updateCustomer", "custHttp", id))
            /\ svcEvent' = SvcSend("updateCustomer", id)
            /\ UNCHANGED edited
            /\ EngineKeeps({})
       ELSE /\ addToQueueCall(CustomerUpdate(id))
            /\ svcTasks' = Add(svcTasks, OpTask("updateCustomer", "custWrite", id))
            /\ svcEvent' = NoSvcEvent
            /\ UNCHANGED edited
            /\ EngineKeeps({"tasks"})
    /\ MonitorKeeps
    /\ UNCHANGED <<server, salesCache, customersCache>>

\* updateCustomer, not reachable: the update completed; the edited customer
\* replaces its cached copy
CustomerWritten(t) ==
    /\ BagIn(t, svcTasks) /\ t.kind = "custWrite"
    /\ stores' = [stores EXCEPT !["customers"] = @ \cup {t.id}]
    /\ edited' = WriteEdit(edited, "customers", t.id, customersCache)
    /\ svcTasks' = Remove(svcTasks, t)
    /\ svcEvent' = NoSvcEvent
    /\ EngineKeeps({"stores"}) /\ MonitorKeeps
    /\ UNCHANGED <<server, salesCache, customersCache>>

\* updateCustomer, reachable: the PUT is answered; on success
\* upsertLocalCustomer starts (getByID), on an error the call fails
CustomerUpdateAnswered(t, status) ==
    /\ BagIn(t, svcTasks) /\ t.kind = "custHttp"
    /\ svcEvent' = SvcRecv(t.op, t.id, status)
    /\ Served(CustomerUpdate(t.id), status, NoResp)
    /\ svcTasks' = IF status = 200
                   THEN Add(Remove(svcTasks, t), OpTask(t.op, "custGetByID", t.id))
                   ELSE Remove(svcTasks, t)
    /\ EngineKeeps({}) /\ MonitorKeeps
    /\ UNCHANGED <<salesCache, customersCache>>

\* upsertLocalCustomer: getByID delivers; update if the record exists, else add
CustomerLookedUp(t) ==
    /\ BagIn(t, svcTasks) /\ t.kind = "custGetByID"
    /\ svcTasks' = Add(Remove(svcTasks, t),
                       OpTask(t.op, IF t.id \in stores["customers"]
                                    THEN "custUpdate" ELSE "custAdd", t.id))
    /\ svcEvent' = NoSvcEvent
    /\ EngineKeeps({}) /\ MonitorKeeps
    /\ UNCHANGED <<server, salesCache, customersCache, edited>>

\* upsertLocalCustomer: the update / add completed; the customer replaces its
\* cached copy or joins customers$ (an add of an existing key fails)
CustomerUpserted(t) ==
    /\ BagIn(t, svcTasks) /\ t.kind \in {"custUpdate", "custAdd"}
    /\ IF t.kind = "custAdd" /\ t.id \in stores["customers"]
       THEN UNCHANGED <<stores, customersCache, edited>>
       ELSE /\ stores' = [stores EXCEPT !["customers"] = @ \cup {t.id}]
            /\ customersCache' = customersCache \cup {t.id}
            /\ edited' = [edited EXCEPT !.db = @ \cup {<<"customers", t.id>>},
                                        !.cache = @ \cup {<<"customers", t.id>>}]
    /\ svcTasks' = Remove(svcTasks, t)
    /\ svcEvent' = NoSvcEvent
    /\ EngineKeeps({"stores"}) /\ MonitorKeeps
    /\ UNCHANGED <<server, salesCache>>

\* syncWithApi: the GET of the customers is answered; on success the store is
\* cleared first
CustomersFetched(t, status) ==
    /\ BagIn(t, svcTasks) /\ t.kind = "customersFetch"
    /\ svcEvent' = SvcRecv("syncCustomers", NoId, status)
    /\ svcTasks' = IF status = 200
                   THEN Add(Remove(svcTasks, t),
                            SvcTask("customersClear", NoId, Ascending(server["customers"])))
                   ELSE Remove(svcTasks, t)
    /\ EngineKeeps({}) /\ MonitorKeeps
    /\ UNCHANGED <<server, salesCache, customersCache, edited>>

\* syncWithApi: dbService.clear('customers') completed; bulkAdd is issued
CustomersCleared(t) ==
    /\ BagIn(t, svcTasks) /\ t.kind = "customersClear"
    /\ stores' = [stores EXCEPT !["customers"] = {}]
    /\ edited' = [edited EXCEPT !.db = {pr \in @ : pr[1] # "customers"}]
    /\ svcTasks' = Add(Remove(svcTasks, t), SvcTask("customersBulkAdd", NoId, t.items))
    /\ svcEvent' = NoSvcEvent
    /\ EngineKeeps({"stores"}) /\ MonitorKeeps
    /\ UNCHANGED <<server, salesCache, customersCache>>

\* syncWithApi: bulkAdd of the API's customers completed; getAll is issued
CustomersBulkAdded(t) ==
    /\ BagIn(t, svcTasks) /\ t.kind = "customersBulkAdd"
    /\ LET ids == {t.items[i] : i \in 1..Len(t.items)} \ stores["customers"]
       IN /\ stores' = [stores EXCEPT !["customers"] = @ \cup ids]
          /\ edited' = [edited EXCEPT !.db = FromApi(@, "customers", ids)]
    /\ svcTasks' = Add(Remove(svcTasks, t), SvcTask("customersGetAll", NoId, <<>>))
    /\ svcEvent' = NoSvcEvent
    /\ EngineKeeps({"stores"}) /\ MonitorKeeps
    /\ UNCHANGED <<server, salesCache, customersCache>>

\* syncWithApi: getAll delivers; the list replaces customers$
CustomersLoaded(t) ==
    /\ BagIn(t, svcTasks) /\ t.kind = "customersGetAll"
    /\ customersCache' = stores["customers"]
    /\ edited' = [edited EXCEPT !.cache = {pr \in @ : pr[1] # "customers"}
                                     \cup {pr \in edited.db : pr[1] = "customers"}]
    /\ svcTasks' = Remove(svcTasks, t)
    /\ svcEvent' = NoSvcEvent
    /\ EngineKeeps({}) /\ MonitorKeeps
    /\ UNCHANGED <<server, salesCache>>

\* the refreshes the constructors start when the API is reachable: SalesService
\* from its isOnline$() subscriber and from loadInitialData, CustomerService
\* from loadInitialData
StartedAtConstruction(isOnline) ==
    IF isOnline
    THEN SetToBag({SvcTask("salesFetch", NoId, <<>>)})
           (+) SetToBag({SvcTask("salesFetch", NoId, <<>>)})
           (+) SetToBag({SvcTask("customersFetch", NoId, <<>>)})
    ELSE EmptyBag

\* the services and the engine constructed, the API reachable or not
InitRefresh ==
    \E isOnline \in BOOLEAN :
        /\ online = isOnline
        /\ isProcessingQueue = processQueue(isOnline, FALSE, FALSE, <<>>).ip
        /\ queueProcessRequestedWhileRunning = FALSE
        /\ runs = processQueue(isOnline, FALSE, FALSE, <<>>).rs
        /\ syncQueue = <<>> /\ failedQueue = <<>> /\ nextKey = 1
        /\ stores = StoresWith(FALSE)
        /\ tasks = EmptyBag /\ handed = {}
        /\ pendingRequests = <<>> /\ failedRequests = <<>>
        /\ refreshing = [pending |-> FALSE, failed |-> FALSE]
        /\ httpEvent = NoEvent
        /\ navigatorOnLine = isOnline /\ apiOnline = isOnline /\ seenOnline = isOnline
        /\ probes = EmptyBag /\ monitorEvent = NoMonitorEvent
        /\ server \in [{"sales", "customers"} -> {{1}, {1, 2}}]
        /\ salesCache = stores["sales"] /\ customersCache = stores["customers"]
        /\ edited = NoEdits
        /\ svcTasks = StartedAtConstruction(isOnline)
        /\ svcEvent = NoSvcEvent
        /\ pageFetch = NoPageFetch
        /\ accepted = {}

\* the records refreshed from the API as the reachability changes
NextRefresh ==
    \/ ReachabilityChange
    \/ \E t \in BagToSet(svcTasks), status \in SvcStatuses : SalesFetched(t, status)
    \/ \E t \in BagToSet(svcTasks) : SalesUpserted(t)
    \/ \E t \in BagToSet(svcTasks), status \in SvcStatuses : CustomersFetched(t, status)
    \/ \E t \in BagToSet(svcTasks) : CustomersCleared(t)
    \/ \E t \in BagToSet(svcTasks) : CustomersBulkAdded(t)
    \/ \E t \in BagToSet(svcTasks) : CustomersLoaded(t)
    \/ /\ \E i \in 1..Len(runs) : RunSnapshot(i)
       /\ ServicesKeep /\ MonitorKeeps /\ UNCHANGED <<server, edited>>

SpecRefresh == InitRefresh /\ [][NextRefresh]_vars

\* records edited: the update operations beside the refresh of the sales; what
\* the Sync Engine does with the requests handed to it is left to Spec
NextUpdates ==
    \/ ReachabilityChange
    \/ \E t \in BagToSet(svcTasks), status \in SvcStatuses : SalesFetched(t, status)
    \/ \E t \in BagToSet(svcTasks) : SalesUpserted(t)
    \/ \E op \in SaleUpdateOps, id \in EditedSales : UpdateSale(op, id)
    \/ \E t \in BagToSet(svcTasks) : SaleWritten(t)
    \/ \E t \in BagToSet(svcTasks), status \in SvcStatuses : SaleUpdateAnswered(t, status)
    \/ \E id \in EditedCustomers : UpdateCustomer(id)
    \/ \E t \in BagToSet(svcTasks) : CustomerWritten(t)
    \/ \E t \in BagToSet(svcTasks), status \in SvcStatuses :
          CustomerUpdateAnswered(t, status)
    \/ \E t \in BagToSet(svcTasks) : CustomerLookedUp(t)
    \/ \E t \in BagToSet(svcTasks) : CustomerUpserted(t)

SpecUpdates == InitSales /\ [][NextUpdates]_vars

\* sales created and synchronized
NextSales ==
    \/ ReachabilityChange
    \/ \E t \in BagToSet(svcTasks), status \in SvcStatuses : SalesFetched(t, status)
    \/ \E t \in BagToSet(svcTasks) : SalesUpserted(t)
    \/ \E tempId \in TempSaleIds : SaveSale(tempId)
    \/ \E t \in BagToSet(svcTasks) : SaleAdded(t)
    \/ \E t \in BagToSet(svcTasks), status \in SvcStatuses :
          \E resp \in Responses(SaleCreate(t.id)) : SalePostAnswered(t, status, resp)
    \/ \E t \in BagToSet(svcTasks) : SaleOrderIdStored(t)
    \/ EngineBesideServices

SpecSales == InitSales /\ [][NextSales]_vars

(***************************************************************************)
(* The delete operations of the services.                                  *)
(***************************************************************************)
\* the record the user deletes: a record downloaded from the API
DeletedSales == {1}
DeletedCustomers == {1}

\* the request deleteSale hands to addToQueue
SaleDelete(id) == Req("DELETE", "SalesOrder", id, id)

\* the request of deleteCustomer
CustomerDelete(id) == Req("DELETE", "customers", id, NoTempId)

\* deleteSale(sale) is subscribed: not reachable, the DELETE is queued and the
\* local delete is issued; reachable, the DELETE is sent
DeleteSale(id) ==
    /\ SvcRoom
    /\ \A t \in BagToSet(svcTasks) : t.op # "deleteSale"
    /\ SaleDelete(id) \notin handed
    /\ IF ~apiOnline
       THEN /\ addToQueueCall(SaleDelete(id))
            /\ svcTasks' = Add(svcTasks, OpTask("deleteSale", "saleDeleteLocal", id))
            /\ svcEvent' = NoSvcEvent
            /\ EngineKeeps({"tasks"})
       ELSE /\ svcTasks' = Add(svcTasks, OpTask("deleteSale", "saleDeleteHttp", id))
            /\ svcEvent' = SvcSend("deleteSale", id)
            /\ EngineKeeps({})
    /\ MonitorKeeps
    /\ UNCHANGED <<server, salesCache, customersCache, edited>>

\* deleteSale: the DELETE is answered; on an error it is queued; either way
\* the local delete is issued
SaleDeleteAnswered(t, status) ==
    /\ BagIn(t, svcTasks) /\ t.kind = "saleDeleteHttp"
    /\ svcEvent' = SvcRecv(t.op, t.id, status)
    /\ Served(SaleDelete(t.id), status, NoResp)
    /\ svcTasks' = Add(Remove(svcTasks, t), OpTask(t.op, "saleDeleteLocal", t.id))
    /\ IF status = 200
       THEN EngineKeeps({})
       ELSE addToQueueCall(SaleDelete(t.id)) /\ EngineKeeps({"tasks"})
    /\ MonitorKeeps
    /\ UNCHANGED <<salesCache, customersCache>>

\* the record <<n, id>> is gone from the local copies
DropEdit(ed, n, id) ==
    [ed EXCEPT !.db = @ \ {<<n, id>>}, !.cache = @ \ {<<n, id>>}]

\* deleteLocal$ of deleteSale: dbService.delete completed, sales$ is filtered
SaleDeletedLocally(t) ==
    /\ BagIn(t, svcTasks) /\ t.kind = "saleDeleteLocal"
    /\ stores' = [stores EXCEPT !["sales"] = @ \ {t.id}]
    /\ salesCache' = salesCache \ {t.id}
    /\ edited' = DropEdit(edited, "sales", t.id)
    /\ svcTasks' = Remove(svcTasks, t)
    /\ svcEvent' = NoSvcEvent
    /\ EngineKeeps({"stores"}) /\ MonitorKeeps
    /\ UNCHANGED <<server, customersCache>>

\* deleteCustomer(customer) is subscribed: the DELETE is sent (the customer
\* has an id), whatever the reachability
DeleteCustomer(id) ==
    /\ SvcRoom
    /\ \A t \in BagToSet(svcTasks) : t.op # "deleteCustomer"
    /\ svcTasks' = Add(svcTasks, OpTask("deleteCustomer", "customerDeleteHttp", id))
    /\ svcEvent' = SvcSend("deleteCustomer", id)
    /\ EngineKeeps({}) /\ MonitorKeeps
    /\ UNCHANGED <<server, salesCache, customersCache, edited>>

\* deleteCustomer: the DELETE is answered; on success the local delete is
\* issued, on an error the call fails
CustomerDeleteAnswered(t, status) ==
    /\ BagIn(t, svcTasks) /\ t.kind = "customerDeleteHttp"
    /\ svcEvent' = SvcRecv(t.op, t.id, status)
    /\ Served(CustomerDelete(t.id), status, NoResp)
    /\ svcTasks' = IF status = 200
                   THEN Add(Remove(svcTasks, t), OpTask(t.op, "customerDeleteLocal", t.id))
                   ELSE Remove(svcTasks, t)
    /\ EngineKeeps({}) /\ MonitorKeeps
    /\ UNCHANGED <<salesCache, customersCache>>

\* deleteLocal$ of deleteCustomer: dbService.delete completed, customers$ is
\* filtered
CustomerDeletedLocally(t) ==
    /\ BagIn(t, svcTasks) /\ t.kind = "customerDeleteLocal"
    /\ stores' = [stores EXCEPT !["customers"] = @ \ {t.id}]
    /\ customersCache' = customersCache \ {t.id}
    /\ edited' = DropEdit(edited, "customers", t.id)
    /\ svcTasks' = Remove(svcTasks, t)
    /\ svcEvent' = NoSvcEvent
    /\ EngineKeeps({"stores"}) /\ MonitorKeeps
    /\ UNCHANGED <<server, salesCache>>

\* records deleted, beside the refresh of the sales; what the Sync Engine does
\* with the requests handed to it is left to Spec
NextDeletes ==
    \/ ReachabilityChange
    \/ \E t \in BagToSet(svcTasks), status \in SvcStatuses : SalesFetched(t, status)
    \/ \E t \in BagToSet(svcTasks) : SalesUpserted(t)
    \/ \E id \in DeletedSales : DeleteSale(id)
    \/ \E t \in BagToSet(svcTasks), status \in SvcStatuses : SaleDeleteAnswered(t, status)
    \/ \E t \in BagToSet(svcTasks) : SaleDeletedLocally(t)
    \/ \E id \in DeletedCustomers : DeleteCustomer(id)
    \/ \E t \in BagToSet(svcTasks), status \in SvcStatuses :
          CustomerDeleteAnswered(t, status)
    \/ \E t \in BagToSet(svcTasks) : CustomerDeletedLocally(t)

SpecDeletes == InitSales /\ [][NextDeletes]_vars

(***************************************************************************)
(* The create operations of the services.                                  *)
(***************************************************************************)
\* tempId = -Date.now() of a customer created in this session
TempCustomerIds == {-1}

\* the request addCustomer hands to addToQueue
CustomerCreate(tempId) == Req("POST", "customers", NoId, tempId)

\* addCustomer(customerData) is subscribed: reachable, the POST is sent; not
\* reachable, dbService.add of the temp customer is issued
AddCustomer(tempId) ==
    /\ SvcRoom
    /\ \A t \in BagToSet(svcTasks) : t.op # "addCustomer"
    /\ IF apiOnline
       THEN /\ ServerIds \ server["customers"] # {}
            /\ svcTasks' = Add(svcTasks, OpTask("addCustomer", "customerPost", NoId))
            /\ svcEvent' = SvcSend("addCustomer", NoId)
       ELSE /\ tempId \notin stores["customers"]
            /\ CustomerCreate(tempId) \notin handed
            /\ svcTasks' = Add(svcTasks, OpTask("addCustomer", "customerAdd", tempId))
            /\ svcEvent' = NoSvcEvent
    /\ EngineKeeps({}) /\ MonitorKeeps
    /\ UNCHANGED <<server, salesCache, customersCache, edited>>

\* addCustomer, not reachable: the add completed; the temp customer joins
\* customers$ and the POST is queued
CustomerAdded(t) ==
    /\ BagIn(t, svcTasks) /\ t.kind = "customerAdd"
    /\ stores' = [stores EXCEPT !["customers"] = @ \cup {t.id}]
    /\ customersCache' = customersCache \cup {t.id}
    /\ addToQueueCall(CustomerCreate(t.id))
    /\ svcTasks' = Remove(svcTasks, t)
    /\ svcEvent' = NoSvcEvent
    /\ EngineKeeps({"stores", "tasks"}) /\ MonitorKeeps
    /\ UNCHANGED <<server, salesCache, edited>>

\* addCustomer, reachable: the POST is answered; on success upsertLocalCustomer
\* starts with the id of the response, on an error the call fails
CustomerPostAnswered(t, status, resp) ==
    /\ BagIn(t, svcTasks) /\ t.kind = "customerPost"
    /\ svcEvent' = SvcRecv(t.op, t.id, status)
    /\ Served(CustomerCreate(NoTempId), status, resp)
    /\ svcTasks' = IF status = 200
                   THEN Add(Remove(svcTasks, t), OpTask(t.op, "custGetByID", NewId(resp)))
                   ELSE Remove(svcTasks, t)
    /\ EngineKeeps({}) /\ MonitorKeeps
    /\ UNCHANGED <<salesCache, customersCache>>

\* records created, beside the refresh of the sales; what the Sync Engine does
\* with the requests handed to it is left to Spec
NextCreates ==
    \/ ReachabilityChange
    \/ \E t \in BagToSet(svcTasks), status \in SvcStatuses : SalesFetched(t, status)
    \/ \E t \in BagToSet(svcTasks) : SalesUpserted(t)
    \/ \E tempId \in TempSaleIds : SaveSale(tempId)
    \/ \E t \in BagToSet(svcTasks) : SaleAdded(t)
    \/ \E t \in BagToSet(svcTasks), status \in SvcStatuses :
          \E resp \in Responses(SaleCreate(t.id)) : SalePostAnswered(t, status, resp)
    \/ \E t \in BagToSet(svcTasks) : SaleOrderIdStored(t)
    \/ \E tempId \in TempCustomerIds : AddCustomer(tempId)
    \/ \E t \in BagToSet(svcTasks) : CustomerAdded(t)
    \/ \E t \in BagToSet(svcTasks), status \in SvcStatuses :
          \E resp \in Responses(CustomerCreate(NoTempId)) :
             CustomerPostAnswered(t, status, resp)
    \/ \E t \in BagToSet(svcTasks) : CustomerLookedUp(t)
    \/ \E t \in BagToSet(svcTasks) : CustomerUpserted(t)

SpecCreates == InitSales /\ [][NextCreates]_vars

(***************************************************************************)
(* Pending entries read back without an id.                                *)
(***************************************************************************)
\* a pending collection left by an earlier session in which getAll delivers
\* entries whose id is missing (QueuedRequest.id is optional) among entries
\* with their keys 1 and 2
WithoutId(req) == [id |-> NoId, req |-> req]

PendingAtStart ==
    LET a == WithoutId(Req("PUT", "customers", 1, NoTempId))
        b == WithoutId(Req("POST", "customers", NoId, -1))
        e1 == [id |-> 1, req |-> Req("DELETE", "SalesOrder", 1, 1)]
        e2 == [id |-> 2, req |-> Req("PUT", "SalesOrder", 1, 1)]
    IN {<<a>>, <<a, e1>>, <<e1, b>>, <<e1, a, e2>>, <<a, b, e2>>}

InitSkipped ==
    /\ online = FALSE
    /\ isProcessingQueue = FALSE
    /\ queueProcessRequestedWhileRunning = FALSE
    /\ syncQueue \in PendingAtStart
    /\ failedQueue = <<>>
    /\ nextKey = 3
    /\ stores = StoresWith(TRUE)
    /\ runs = <<>>
    /\ tasks = EmptyBag
    /\ pendingRequests = syncQueue
    /\ failedRequests = <<>>
    /\ refreshing = [pending |-> FALSE, failed |-> FALSE]
    /\ httpEvent = NoEvent
    /\ handed = {}
    /\ OutsideInit

\* the engine over such a collection; POST sales is the request handed in
NextSkipped ==
    \/ /\ AddToQueue(Req("POST", "SalesOrder", NoId, -2))
       /\ UNCHANGED outside
    \/ EngineSteps

SpecSkipped == InitSkipped /\ [][NextSkipped]_vars

(***************************************************************************)
(* SalesService.fetchSalesPage while the API is not reachable.             *)
(***************************************************************************)
\* mapApiSale: id and order_id both become `order_id ?? id` of the stored row
\* (order_id NoId: the row has none); an order_date is kept as its time value
mapApiSale(api) ==
    LET orderId == IF api.order_id # NoId THEN api.order_id ELSE api.id
    IN [id |-> orderId, order_id |-> orderId, order_date |-> api.order_date]

\* setHours(0, 0, 0, 0) and setHours(23, 59, 59, 999) of a date
StartOfDay(t) == (t \div DayLength) * DayLength
EndOfDay(t) == StartOfDay(t) + DayLength - 1

\* the filter is applied `if (start && end)`: d >= startDate && d <= endDate
filterByDate(sales, dateRange) ==
    IF dateRange.start # NoDate /\ dateRange.end # NoDate
    THEN SelectSeq(sales, LAMBDA x : /\ x.order_date >= StartOfDay(dateRange.start)
                                     /\ x.order_date <= EndOfDay(dateRange.end))
    ELSE sales

\* the comparator of filtered.sort: negative when a is placed before b
compareSales_keyAscending(a, b) ==
    IF a.order_date # b.order_date THEN b.order_date - a.order_date
    ELSE a.order_id - b.order_id

compareSales(a, b) ==
    IF a.order_date # b.order_date THEN b.order_date - a.order_date
    ELSE b.order_id - a.order_id

\* Array.prototype.sort is stable: an element goes behind every element that
\* does not compare greater than it
RECURSIVE InsertSale(_, _)
InsertSale(sorted, e) ==
    IF sorted = <<>> THEN <<e>>
    ELSE IF compareSales(Head(sorted), e) <= 0
         THEN <<Head(sorted)>> \o InsertSale(Tail(sorted), e)
         ELSE <<e>> \o sorted

RECURSIVE SortSales(_)
SortSales(sales) ==
    IF sales = <<>> THEN <<>>
    ELSE InsertSale(SortSales(SubSeq(sales, 1, Len(sales) - 1)), sales[Len(sales)])

\* Math.ceil(a / b) for a >= 0 and b > 0
Ceil(a, b) == (a + b - 1) \div b

\* filtered.slice(startIndex, end) with 0 <= startIndex <= end
Slice(list, startIndex, end) ==
    SubSeq(list, startIndex + 1, IF end < Len(list) THEN end ELSE Len(list))

\* what fetchSalesPageOffline emits for the rows getAll('sales') delivered
fetchSalesPageOffline(sales, pageIndex, pageSize, dateRange) ==
    LET mapped == [i \in 1..Len(sales) |-> mapApiSale(sales[i])]
        filtered == SortSales(filterByDate(mapped, dateRange))
        totalCount == Len(filtered)
        startIndex == pageIndex * pageSize
    IN [page |-> pageIndex + 1,
        pageSize |-> pageSize,
        totalCount |-> totalCount,
        totalPages |-> IF pageSize > 0 THEN Ceil(totalCount, pageSize) ELSE 0,
        items |-> IF pageSize > 0 THEN Slice(filtered, startIndex, startIndex + pageSize)
                  ELSE <<>>]

\* fetchSalesPage(pageIndex, pageSize, dateRange) is subscribed while
\* isOnlineNow() is false, and getAll('sales') completes
FetchSalesPage(pageIndex, pageSize, dateRange) ==
    /\ ~apiOnline
    /\ pageFetch' = [pageFetch EXCEPT
            !.asked = TRUE, !.pageIndex = pageIndex, !.pageSize = pageSize,
            !.dateRange = dateRange,
            !.result = fetchSalesPageOffline(pageFetch.rows, pageIndex, pageSize, dateRange)]
    /\ svcEvent' = NoSvcEvent
    /\ monitorEvent' = NoMonitorEvent
    /\ UNCHANGED <<navigatorOnLine, apiOnline, probes, seenOnline, server, salesCache,
                   customersCache, edited, svcTasks, accepted>>
    /\ UNCHANGED engineVars

\* the rows of the 'sales' store: a temp sale (-2), with or without the
\* order_id the API gave it (the one of sale 2, which a refresh stores as
\* well), and the sales 1 and 2, each with an order date
SaleRowIds == <<-2, 1, 2>>
OrderDates == 0..MaxTime
OrderIdsOf(id) == IF id < 0 THEN {NoId, 2} ELSE {id}
SaleRowsOf(id) == [id : {id}, order_id : OrderIdsOf(id), order_date : OrderDates]

RECURSIVE RowsFrom(_)
RowsFrom(i) ==
    IF i > Len(SaleRowIds) THEN {<<>>}
    ELSE LET rest == RowsFrom(i + 1)
         IN rest \cup {<<r>> \o q : r \in SaleRowsOf(SaleRowIds[i]), q \in rest}

\* the date ranges a view asks for: none, half of one, a day, two days, or an
\* end before the start
DateRanges == [start : {NoDate, 1, 2}, end : {NoDate, 2}]

InitPages ==
    /\ online = FALSE
    /\ isProcessingQueue = FALSE
    /\ queueProcessRequestedWhileRunning = FALSE
    /\ syncQueue = <<>>
    /\ failedQueue = <<>>
    /\ nextKey = 1
    /\ \E rows \in RowsFrom(1) :
        /\ pageFetch = [NoPageFetch EXCEPT !.rows = rows]
        /\ accepted = {}
        /\ stores = [StoresWith(FALSE) EXCEPT
                !["sales"] = {rows[i].id : i \in 1..Len(rows)}]
    /\ runs = <<>>
    /\ tasks = EmptyBag
    /\ pendingRequests = <<>>
    /\ failedRequests = <<>>
    /\ refreshing = [pending |-> FALSE, failed |-> FALSE]
    /\ httpEvent = NoEvent
    /\ handed = {}
    /\ MonitorOffline
    /\ server = [n \in {"sales", "customers"} |-> {1}]
    /\ salesCache = stores["sales"]
    /\ customersCache = stores["customers"]
    /\ edited = NoEdits
    /\ svcTasks = EmptyBag
    /\ svcEvent = NoSvcEvent

NextPages ==
    \E pageIndex \in 0..MaxPage, pageSize \in 0..MaxPageSize, dateRange \in DateRanges :
        FetchSalesPage(pageIndex, pageSize, dateRange)

SpecPages == InitPages /\ [][NextPages]_vars

(***************************************************************************)
(* The observable views while the failed collection is in use: the service *)
(* is constructed over the entries of FailedAtStart, and init() has called *)
(* refreshQueues, whose two reads are in flight.                           *)
(***************************************************************************)
\* getPendingRequestCount: the length of the value of pendingRequests$
\* (distinctUntilChanged drops a length equal to the one emitted before it)
getPendingRequestCount == Len(pendingRequests)

\* the entry an earlier run moved to the failed collection: an update
FailedEdit == <<FailedAtStart[1]>>

InitRetryViews ==
    /\ online = FALSE
    /\ isProcessingQueue = FALSE
    /\ queueProcessRequestedWhileRunning = FALSE
    /\ syncQueue = <<>>
    /\ failedQueue = FailedEdit
    /\ nextKey = 2
    /\ stores = StoresWith(TRUE)
    /\ runs = <<>>
    /\ tasks = EmptyBag
    /\ pendingRequests = <<>>
    /\ failedRequests = <<>>
    /\ refreshing = refreshQueues
    /\ httpEvent = NoEvent
    /\ handed = {}
    /\ OutsideInit

\* the operations on the failed collection, the engine's steps that an update
\* goes through (no creation is queued, so nothing is reconciled), and the
\* deliveries of refreshQueues
NextRetryViews ==
    \/ /\ \E k \in 1..Len(failedQueue) : RetryFailedRequest(k)
       /\ UNCHANGED outside
    \/ /\ \E k \in 1..Len(failedQueue) : DeleteFailedRequest(k)
       /\ UNCHANGED outside
    \/ RetryAllFailedRequests /\ UNCHANGED outside
    \/ /\ \E t \in BagToSet(tasks) : FailedDeleted(t)
       /\ UNCHANGED outside
    \/ /\ \E t \in BagToSet(tasks) : RetryAllGot(t)
       /\ UNCHANGED outside
    \/ /\ \E t \in BagToSet(tasks) : RetryAllAdded(t)
       /\ UNCHANGED outside
    \/ /\ \E t \in BagToSet(tasks) : RetryAllCleared(t)
       /\ UNCHANGED outside
    \/ /\ \E t \in BagToSet(tasks), status \in Statuses :
             \E resp \in Responses(t.req) : ImmediateResponse(t, status, resp)
       /\ UNCHANGED outside
    \/ /\ \E t \in BagToSet(tasks) : EnqueueDone(t)
       /\ UNCHANGED outside
    \/ ProcessQueue /\ UNCHANGED outside
    \/ OnlineChange /\ UNCHANGED outside
    \/ /\ \E i \in 1..Len(runs) : RunSnapshot(i)
       /\ UNCHANGED outside
    \/ /\ \E i \in 1..Len(runs), status \in Statuses :
             \E resp \in Responses(CurrentEntry(runs[i]).req) :
                RunHttpResponse(i, status, resp)
       /\ UNCHANGED outside
    \/ /\ \E i \in 1..Len(runs) : RunFailedAdded(i)
       /\ UNCHANGED outside
    \/ /\ \E i \in 1..Len(runs) : RunEntryDeleted(i)
       /\ UNCHANGED outside
    \/ /\ \E t \in BagToSet(tasks) : ConflictDeleted(t)
       /\ UNCHANGED outside
    \/ RefreshPendingDone /\ UNCHANGED outside
    \/ RefreshFailedDone /\ UNCHANGED outside

SpecRetryViews == InitRetryViews /\ [][NextRetryViews]_vars

(***************************************************************************)
(* The Sync Engine as the subscriber of the Connectivity Monitor: a value  *)
(* that isOnline$() passes on reaches init's subscriber in the same step.  *)
(* The pending collection holds two entries of an earlier session.         *)
(***************************************************************************)
LeftPending ==
    << [id |-> 1, req |-> Req("PUT", "customers", 1, NoTempId)],
       [id |-> 2, req |-> Req("DELETE", "SalesOrder", 1, 1)] >>

\* a step of the monitor, and init's subscriber when isOnline$() delivers
Monitored(step) ==
    /\ step
    /\ IF monitorEvent'.delivered
       THEN OnlineDelivered(seenOnline')
       ELSE /\ httpEvent' = NoEvent
            /\ UNCHANGED <<online, isProcessingQueue, queueProcessRequestedWhileRunning,
                           syncQueue, failedQueue, nextKey, stores, runs, tasks,
                           pendingRequests, failedRequests, refreshing, handed>>
    /\ svcEvent' = NoSvcEvent
    /\ UNCHANGED <<server, salesCache, customersCache, edited, svcTasks, pageFetch,
                   accepted>>

\* a step of the engine beside the monitor
Unmonitored(step) ==
    /\ step
    /\ MonitorKeeps
    /\ ServicesKeep
    /\ UNCHANGED <<server, edited>>

\* the constructor: online$.next(apiStatus.isOnlineNow()), then init()
\* subscribes and is given the monitor's current value
InitEngineMonitor ==
    /\ navigatorOnLine \in BOOLEAN
    /\ apiOnline = navigatorOnLine
    /\ probes = IF navigatorOnLine THEN SetToBag({"event"}) ELSE EmptyBag
    /\ seenOnline = apiOnline
    /\ monitorEvent = NoMonitorEvent
    /\ online = apiOnline
    /\ LET f == onReachability(apiOnline, FALSE, FALSE, <<>>)
       IN /\ isProcessingQueue = f.ip
          /\ queueProcessRequestedWhileRunning = f.rr
          /\ runs = f.rs
    /\ syncQueue = LeftPending
    /\ failedQueue = <<>>
    /\ nextKey = 3
    /\ stores = StoresWith(FALSE)
    /\ tasks = EmptyBag
    /\ pendingRequests = syncQueue
    /\ failedRequests = <<>>
    /\ refreshing = [pending |-> FALSE, failed |-> FALSE]
    /\ httpEvent = NoEvent
    /\ handed = {}
    /\ ServicesIdle(stores)

NextEngineMonitor ==
    \/ Monitored(WindowOnline)
    \/ Monitored(WindowOffline)
    \/ Monitored(TimerTick)
    \/ Monitored(CheckNow)
    \/ \E origin \in ProbeOrigins, status \in ProbeStatuses :
          Monitored(ProbeAnswered(origin, status))
    \/ Unmonitored(ProcessQueue)
    \/ \E i \in 1..Len(runs) : Unmonitored(RunSnapshot(i))
    \/ \E i \in 1..Len(runs), status \in Statuses :
          \E resp \in Responses(CurrentEntry(runs[i]).req) :
             Unmonitored(RunHttpResponse(i, status, resp))
    \/ \E i \in 1..Len(runs) : Unmonitored(RunFailedAdded(i))
    \/ \E i \in 1..Len(runs) : Unmonitored(RunEntryDeleted(i))
    \/ \E t \in BagToSet(tasks) : Unmonitored(ConflictDeleted(t))

SpecEngineMonitor == InitEngineMonitor /\ [][NextEngineMonitor]_vars

(***************************************************************************)
(* Runs whose store calls may fail.  An error of the getAll, of the add to *)
(* the failed collection or of a delete inside handleSyncError reaches     *)
(* processQueue's catchError and ends the run; an error of the delete that *)
(* follows a successful request reaches syncSingleRequest's catchError,    *)
(* which hands it to handleSyncError as an error without a status.         *)
(***************************************************************************)
\* err.status of an error that is no HTTP response
NoStatus == -1

\* a store call of the run at index i fails
RunStoreFailed(i) ==
    /\ runs[i].phase \in {"getAll", "delOk", "del404", "addFailed", "delFailed"}
    /\ IF runs[i].phase = "delOk"
          /\ handleSyncError(CurrentEntry(runs[i]).req, NoStatus) = "fail"
       THEN /\ runs' = [runs EXCEPT ![i].phase = "addFailed", ![i].status = NoStatus]
            /\ UNCHANGED <<isProcessingQueue, queueProcessRequestedWhileRunning>>
       ELSE EndRun(i)
    /\ httpEvent' = NoEvent
    /\ UNCHANGED <<online, syncQueue, failedQueue, nextKey, stores, tasks,
                   pendingRequests, failedRequests, refreshing, handed>>

\* a call issued by a run completes or fails (an add under a key that the
\* failed collection holds already can only fail)
RunProgress ==
    \E i \in 1..Len(runs) :
        \/ Unmonitored(RunSnapshot(i))
        \/ \E status \in Statuses : \E resp \in Responses(CurrentEntry(runs[i]).req) :
              Unmonitored(RunHttpResponse(i, status, resp))
        \/ /\ CurrentEntry(runs[i]).id \notin Keys(failedQueue)
           /\ Unmonitored(RunFailedAdded(i))
        \/ Unmonitored(RunEntryDeleted(i))
        \/ Unmonitored(RunStoreFailed(i))

\* two deletes that an earlier session left pending
PendingDeletes ==
    << [id |-> 1, req |-> Req("DELETE", "SalesOrder", 1, 1)],
       [id |-> 2, req |-> Req("DELETE", "customers", 1, NoTempId)] >>

InitRuns ==
    /\ online = FALSE
    /\ isProcessingQueue = FALSE
    /\ queueProcessRequestedWhileRunning = FALSE
    /\ syncQueue = PendingDeletes
    /\ failedQueue = <<>>
    /\ nextKey = 3
    /\ stores = StoresWith(FALSE)
    /\ runs = <<>>
    /\ tasks = EmptyBag
    /\ pendingRequests = syncQueue
    /\ failedRequests = <<>>
    /\ refreshing = [pending |-> FALSE, failed |-> FALSE]
    /\ httpEvent = NoEvent
    /\ handed = {}
    /\ OutsideInit

NextRuns ==
    \/ Unmonitored(ProcessQueue)
    \/ Unmonitored(OnlineChange)
    \/ RunProgress

\* every HTTP call and every store call that a run issued completes or fails
SpecRuns == InitRuns /\ [][NextRuns]_vars /\ WF_vars(RunProgress)

(***************************************************************************)
(* The engine with a record of the entries the API accepted: `accepted`    *)
(* gains the key of the entry whose request a run saw succeed.  Two        *)
(* entries are pending from an earlier session, an update of sale 1 is     *)
(* handed in meanwhile.                                                    *)
(***************************************************************************)
\* syncSingleRequest: the HTTP call of the current item is answered, and the
\* answer is recorded
RunHttpResponseRecorded(i, status, resp) ==
    /\ RunHttpResponse(i, status, resp)
    /\ accepted' = IF status = 200 THEN accepted \cup {CurrentEntry(runs[i]).id}
                   ELSE accepted
    /\ monitorEvent' = NoMonitorEvent
    /\ svcEvent' = NoSvcEvent
    /\ UNCHANGED <<navigatorOnLine, apiOnline, probes, seenOnline, server, salesCache,
                   customersCache, edited, svcTasks, pageFetch>>

NextAccepted ==
    \/ Unmonitored(AddToQueue(Req("PUT", "SalesOrder", 1, 1)))
    \/ \E t \in BagToSet(tasks), status \in Statuses :
          \E resp \in Responses(t.req) : Unmonitored(ImmediateResponse(t, status, resp))
    \/ \E t \in BagToSet(tasks) : Unmonitored(EnqueueDone(t))
    \/ Unmonitored(ProcessQueue)
    \/ Unmonitored(OnlineChange)
    \/ \E i \in 1..Len(runs) : Unmonitored(RunSnapshot(i))
    \/ \E i \in 1..Len(runs), status \in Statuses :
          \E resp \in Responses(CurrentEntry(runs[i]).req) :
             RunHttpResponseRecorded(i, status, resp)
    \/ \E i \in 1..Len(runs) : Unmonitored(RunFailedAdded(i))
    \/ \E i \in 1..Len(runs) : Unmonitored(RunEntryDeleted(i))
    \/ \E t \in BagToSet(tasks) : Unmonitored(ConflictDeleted(t))

InitAccepted ==
    /\ online = FALSE
    /\ isProcessingQueue = FALSE
    /\ queueProcessRequestedWhileRunning = FALSE
    /\ syncQueue = LeftPending
    /\ failedQueue = <<>>
    /\ nextKey = 3
    /\ stores = StoresWith(FALSE)
    /\ runs = <<>>
    /\ tasks = EmptyBag
    /\ pendingRequests = syncQueue
    /\ failedRequests = <<>>
    /\ refreshing = [pending |-> FALSE, failed |-> FALSE]
    /\ httpEvent = NoEvent
    /\ handed = {}
    /\ OutsideInit

SpecAccepted == InitAccepted /\ [][NextAccepted]_vars

(***************************************************************************)
(* The engine while every call it issued completes: nothing but init's     *)
(* subscriber and finalize calls processQueue, and the API, when it        *)
(* answers a run, answers with a success or a rejection.                   *)
(***************************************************************************)
AnswersWhileReachable == {200, 404, 400}

\* a call issued by addToQueue, by a run or by a reconciliation completes
EngineCompletes ==
    \/ \E t \in BagToSet(tasks), status \in Statuses :
          \E resp \in Responses(t.req) : Unmonitored(ImmediateResponse(t, status, resp))
    \/ \E t \in BagToSet(tasks) : Unmonitored(EnqueueDone(t))
    \/ \E i \in 1..Len(runs) : Unmonitored(RunSnapshot(i))
    \/ \E i \in 1..Len(runs), status \in AnswersWhileReachable :
          \E resp \in Responses(CurrentEntry(runs[i]).req) :
             Unmonitored(RunHttpResponse(i, status, resp))
    \/ \E i \in 1..Len(runs) : Unmonitored(RunFailedAdded(i))
    \/ \E i \in 1..Len(runs) : Unmonitored(RunEntryDeleted(i))
    \/ \E t \in BagToSet(tasks) : Unmonitored(ReconcileLookup(t))
    \/ \E t \in BagToSet(tasks) : Unmonitored(ReconcileDeleted(t))
    \/ \E t \in BagToSet(tasks) : Unmonitored(ReconcileAdded(t))
    \/ \E t \in BagToSet(tasks) : Unmonitored(ConflictDeleted(t))

NextCompleting ==
    \/ \E req \in Requests : Unmonitored(AddToQueue(req))
    \/ Unmonitored(OnlineChange)
    \/ EngineCompletes

SpecCompleting == Init /\ [][NextCompleting]_vars /\ WF_vars(EngineCompletes)

(***************************************************************************)
(* Records created in this session, edited or deleted before their         *)
(* creation is synchronized.                                               *)
(***************************************************************************)
\* `sale.order_id ?? sale.id` of updateSaleWithStatus, updateSaleStatus and
\* deleteSale; `updatedCustomer.id` of updateCustomer is identifier(NoId, id)
identifier(order_id, id) == IF order_id # NoId THEN order_id ELSE id

\* the record tempId of store n was created in this session, its POST was
\* handed to addToQueue and the record is still in the store: no order_id was
\* stored on it (saveSaleWithStatus stores one only when its own POST succeeds)
CreatedHere(n, tempId) ==
    /\ tempId \in stores[n]
    /\ (IF n = "sales" THEN SaleCreate(tempId) ELSE CustomerCreate(tempId)) \in handed

\* the user edits or deletes such a record: the operations address it by
\* identifier(NoId, tempId)
UpdateTempSale(op, tempId) ==
    CreatedHere("sales", tempId) /\ UpdateSale(op, identifier(NoId, tempId))
DeleteTempSale(tempId) ==
    CreatedHere("sales", tempId) /\ DeleteSale(identifier(NoId, tempId))
UpdateTempCustomer(tempId) ==
    CreatedHere("customers", tempId) /\ UpdateCustomer(identifier(NoId, tempId))

NextTempEdits ==
    \/ ReachabilityChange
    \/ \E t \in BagToSet(svcTasks), status \in SvcStatuses : SalesFetched(t, status)
    \/ \E t \in BagToSet(svcTasks) : SalesUpserted(t)
    \/ \E tempId \in TempSaleIds : SaveSale(tempId)
    \/ \E t \in BagToSet(svcTasks) : SaleAdded(t)
    \/ \E t \in BagToSet(svcTasks), status \in SvcStatuses :
          \E resp \in Responses(SaleCreate(t.id)) : SalePostAnswered(t, status, resp)
    \/ \E t \in BagToSet(svcTasks) : SaleOrderIdStored(t)
    \/ \E tempId \in TempCustomerIds : AddCustomer(tempId)
    \/ \E t \in BagToSet(svcTasks) : CustomerAdded(t)
    \/ \E t \in BagToSet(svcTasks), status \in SvcStatuses :
          \E resp \in Responses(CustomerCreate(NoTempId)) :
             CustomerPostAnswered(t, status, resp)
    \/ \E op \in SaleUpdateOps, tempId \in TempSaleIds : UpdateTempSale(op, tempId)
    \/ \E t \in BagToSet(svcTasks) : SaleWritten(t)
    \/ \E t \in BagToSet(svcTasks), status \in SvcStatuses : SaleUpdateAnswered(t, status)
    \/ \E tempId \in TempSaleIds : DeleteTempSale(tempId)
    \/ \E t \in BagToSet(svcTasks), status \in SvcStatuses : SaleDeleteAnswered(t, status)
    \/ \E t \in BagToSet(svcTasks) : SaleDeletedLocally(t)
    \/ \E tempId \in TempCustomerIds : UpdateTempCustomer(tempId)
    \/ \E t \in BagToSet(svcTasks) : CustomerWritten(t)
    \/ \E t \in BagToSet(svcTasks), status \in SvcStatuses :
          CustomerUpdateAnswered(t, status)
    \/ \E t \in BagToSet(svcTasks) : CustomerLookedUp(t)
    \/ \E t \in BagToSet(svcTasks) : CustomerUpserted(t)

SpecTempEdits == InitSales /\ [][NextTempEdits]_vars

(***************************************************************************)
(* The services constructed over what an earlier session left: records     *)
(* created while unreachable, their POSTs still pending.                    *)
(***************************************************************************)
\* the pending entries of addCustomer and saveSaleWithStatus
CreatesPending ==
    << [id |-> 1, req |-> CustomerCreate(-1)],
       [id |-> 2, req |-> SaleCreate(-2)] >>

InitRestart ==
    \E isOnline \in BOOLEAN :
        /\ online = isOnline
        /\ isProcessingQueue = processQueue(isOnline, FALSE, FALSE, <<>>).ip
        /\ queueProcessRequestedWhileRunning = FALSE
        /\ runs = processQueue(isOnline, FALSE, FALSE, <<>>).rs
        /\ syncQueue = CreatesPending /\ failedQueue = <<>> /\ nextKey = 3
        /\ stores = StoresWith(TRUE)
        /\ tasks = EmptyBag /\ handed = {}
        /\ pendingRequests = syncQueue /\ failedRequests = <<>>
        /\ refreshing = [pending |-> FALSE, failed |-> FALSE]
        /\ httpEvent = NoEvent
        /\ navigatorOnLine = isOnline /\ apiOnline = isOnline /\ seenOnline = isOnline
        /\ probes = EmptyBag /\ monitorEvent = NoMonitorEvent
        /\ server \in [{"sales", "customers"} -> {{1}, {1, 2}}]
        /\ salesCache = stores["sales"] /\ customersCache = stores["customers"]
        /\ edited = NoEdits
        /\ svcTasks = StartedAtConstruction(isOnline)
        /\ svcEvent = NoSvcEvent
        /\ pageFetch = NoPageFetch
        /\ accepted = {}

SpecRestart == InitRestart /\ [][NextRefresh]_vars

(***************************************************************************)
(* The sales operations that tell their caller whether the record was      *)
(* saved remotely: saveSaleWithStatus and updateSaleWithStatus. Every call *)
(* on the local store completes.                                           *)
(***************************************************************************)
NextSaleResults ==
    \/ ReachabilityChange
    \/ \E t \in BagToSet(svcTasks), status \in SvcStatuses : SalesFetched(t, status)
    \/ \E t \in BagToSet(svcTasks) : SalesUpserted(t)
    \/ \E tempId \in TempSaleIds : SaveSale(tempId)
    \/ \E t \in BagToSet(svcTasks) : SaleAdded(t)
    \/ \E t \in BagToSet(svcTasks), status \in SvcStatuses :
          \E resp \in Responses(SaleCreate(t.id)) : SalePostAnswered(t, status, resp)
    \/ \E t \in BagToSet(svcTasks) : SaleOrderIdStored(t)
    \/ \E op \in SaleUpdateOps, id \in EditedSales : UpdateSale(op, id)
    \/ \E t \in BagToSet(svcTasks) : SaleWritten(t)
    \/ \E t \in BagToSet(svcTasks), status \in SvcStatuses : SaleUpdateAnswered(t, status)

SpecSaleResults == InitSales /\ [][NextSaleResults]_vars

(***************************************************************************)
(* Vocabulary of the properties.                                           *)
(***************************************************************************)
\* the step consumes the asynchronous task t
Consumed(t) == CopiesIn(t, tasks') < CopiesIn(t, tasks)

\* the step delivers the answer `status` to an HTTP call issued by `from`
Answered(from) == httpEvent'.kind = "recv" /\ httpEvent'.from = from

\* a is a subsequence of b (same relative order)
RECURSIVE IsSubseq(_, _)
IsSubseq(a, b) ==
    IF a = <<>> THEN TRUE
    ELSE IF b = <<>> THEN FALSE
    ELSE IF Head(a) = Head(b) THEN IsSubseq(Tail(a), Tail(b))
    ELSE IsSubseq(a, Tail(b))

\* the entry that the completion of dbService.add('sync-queue', t.req) appends
EnqueuedOnce(t) ==
    \E k \in 1..nextKey :
        /\ k \notin Keys(syncQueue)
        /\ syncQueue' = Append(syncQueue, [id |-> k, req |-> t.req])

\* the step in which an active run finishes: the is-processing flag drops, or
\* the rerun flag is consumed by the follow-up run
RunFinishes ==
    /\ isProcessingQueue
    /\ \/ ~isProcessingQueue'
       \/ queueProcessRequestedWhileRunning /\ ~queueProcessRequestedWhileRunning'

(***************************************************************************)
(* C1.  Within a run the snapshot is in insertion (key) order; while the   *)
(* run works on the item at position pos, every earlier snapshot item has  *)
(* left the pending collection (deleted, or moved to failed and deleted),  *)
(* every later item is still pending and has not been sent; and at most    *)
(* one run has an HTTP call in flight.                                     *)
(***************************************************************************)
C1_SequentialInOrder ==
    \A i \in 1..Len(runs) :
        LET r == runs[i]
        IN r.phase # "getAll" =>
            /\ \A a, b \in 1..Len(r.snap) : a < b => r.snap[a].id < r.snap[b].id
            /\ \A a \in 1..(r.pos - 1) : r.snap[a].id \notin Keys(syncQueue)
            /\ IsSubseq(SubSeq(r.snap, r.pos + 1, Len(r.snap)), syncQueue)
            /\ r.phase = "http" =>
                  /\ syncQueue[1] = r.snap[r.pos]
                  /\ \A j \in 1..Len(runs) : j # i => runs[j].phase # "http"

\* the second item of a snapshot is in flight and processQueue was called meanwhile
C1_Witness ==
    /\ Len(runs) = 1
    /\ runs[1].phase = "http" /\ runs[1].pos = 2
    /\ queueProcessRequestedWhileRunning

(***************************************************************************)
(* C2.  At most one run is active, and isProcessingQueue tells whether one *)
(* is; a processQueue call during a run (it sets the rerun flag) creates   *)
(* no run, reads no snapshot and sends nothing.                            *)
(***************************************************************************)
C2_AtMostOneRun ==
    [][ /\ Len(runs') <= 1
        /\ isProcessingQueue' <=> Len(runs') = 1
        /\ (isProcessingQueue /\ ~queueProcessRequestedWhileRunning
                /\ queueProcessRequestedWhileRunning')
             => /\ runs' = runs
                /\ httpEvent'.kind # "send"
                /\ UNCHANGED <<syncQueue, failedQueue, tasks, stores>> ]_vars

\* a call arrived while the run had a request in flight
C2_Witness ==
    /\ isProcessingQueue /\ queueProcessRequestedWhileRunning
    /\ Len(runs) = 1 /\ runs[1].phase = "http"

(***************************************************************************)
(* C3.  When a run finishes with the rerun flag set, exactly one follow-up *)
(* run starts if the engine is online (the flag is consumed), and none if  *)
(* it is offline; without the flag none starts.                            *)
(***************************************************************************)
C3_OneFollowUpRun ==
    [][ RunFinishes =>
          IF queueProcessRequestedWhileRunning /\ online
          THEN /\ isProcessingQueue'
               /\ ~queueProcessRequestedWhileRunning'
               /\ runs' = <<NewRun>>
          ELSE /\ ~isProcessingQueue'
               /\ runs' = <<>> ]_vars

\* a run was aborted by a transport failure and its follow-up run has started
C3_Witness ==
    /\ httpEvent.kind = "recv" /\ httpEvent.from = "run" /\ httpEvent.status = 0
    /\ isProcessingQueue /\ runs = <<NewRun>>

(***************************************************************************)
(* C4.  addToQueue while the engine is offline starts exactly the store    *)
(* write of that request and no HTTP call; the completed store write       *)
(* appends exactly one entry for the request to the pending collection.    *)
(***************************************************************************)
C4_OfflineQueuesOnce ==
    [][ /\ (handed' # handed /\ ~online) =>
              \E req \in handed' \ handed :
                  /\ tasks' = Add(tasks, Task("enqueue", req, NoResp))
                  /\ httpEvent'.kind # "send"
                  /\ UNCHANGED <<syncQueue, failedQueue, runs>>
        /\ \A t \in BagToSet(tasks) :
              (t.kind = "enqueue" /\ Consumed(t)) => EnqueuedOnce(t) ]_vars

\* one request handed in offline, one pending entry for it, nothing in flight
C4_Witness ==
    /\ ~online /\ tasks = EmptyBag /\ runs = <<>>
    /\ Len(syncQueue) = 1 /\ handed = {syncQueue[1].req}

(***************************************************************************)
(* C5.  When the immediate attempt of addToQueue succeeds, the pending     *)
(* collection is left alone and nothing remains in flight that could add   *)
(* the request to it.                                                      *)
(***************************************************************************)
C5_SuccessNotQueued ==
    [][ (Answered("imm") /\ httpEvent'.status = 200) =>
          /\ syncQueue' = syncQueue
          /\ \A k \in 1..Len(syncQueue') : syncQueue'[k].req # httpEvent'.req
          /\ \A t \in BagToSet(tasks') :
                t.kind \in {"exec", "enqueue"} => t.req # httpEvent'.req ]_vars

\* an immediate attempt has just succeeded
C5_Witness ==
    /\ httpEvent.kind = "recv" /\ httpEvent.from = "imm" /\ httpEvent.status = 200
    /\ httpEvent.req \in handed

(***************************************************************************)
(* C6.  When the immediate attempt of addToQueue fails, with whatever      *)
(* status, the store write of the request is started; its completion       *)
(* appends exactly one pending entry; the failed collection is untouched.  *)
(***************************************************************************)
C6_FailureQueuesOnce ==
    [][ /\ (Answered("imm") /\ httpEvent'.status # 200) =>
              /\ tasks' = Add(Remove(tasks, Task("exec", httpEvent'.req, NoResp)),
                              Task("enqueue", httpEvent'.req, NoResp))
              /\ UNCHANGED <<syncQueue, failedQueue>>
        /\ \A t \in BagToSet(tasks) :
              (t.kind = "enqueue" /\ Consumed(t)) =>
                  EnqueuedOnce(t) /\ failedQueue' = failedQueue ]_vars

\* an immediate attempt has just been answered 404 and its store write is in flight
C6_Witness ==
    /\ httpEvent.kind = "recv" /\ httpEvent.from = "imm" /\ httpEvent.status = 404
    /\ BagIn(Task("enqueue", httpEvent.req, NoResp), tasks)
    /\ syncQueue = <<>> /\ failedQueue = <<>>

(***************************************************************************)
(* C7.  Reconciliation of a successful POST with payload.tempId = X.       *)
(***************************************************************************)
\* the id the server returned (order_id for a sales order, id otherwise)
ReturnedId(resp) == IF resp.order_id # NoId THEN resp.order_id ELSE resp.id

\* the step ends the reconciliation t belongs to: the lookup found no
\* placeholder, or the server record has been added
ReconcileEnds(t) ==
    \/ t.kind = "reconGet" /\ Consumed(t)
         /\ ~BagIn(TaskOf("reconDel", t.req, t.resp, t.caller), tasks')
    \/ t.kind = "reconAdd" /\ Consumed(t)

\* C7 as stated: whenever the reconciliation of a successful queued POST
\* has finished, the collection holds no record X and a record keyed by the
\* returned id.
C7_AsStated ==
    [][ \A t \in BagToSet(tasks) :
          (t.caller = "run" /\ ReconcileEnds(t)) =>
              /\ t.req.tempId \notin stores'[ReconcileStore(t.req)]
              /\ ReturnedId(t.resp) \in stores'[ReconcileStore(t.req)] ]_vars

\* C7 amended: when the reconciliation of a successful queued POST has
\* finished the collection holds no record X; it holds the record keyed by
\* the returned id if the placeholder X was in the collection when
\* reconciliation looked it up (else the collection is left as it was).
C7_ReconciledIfPlaceholder ==
    [][ \A t \in BagToSet(tasks) :
          /\ (t.caller = "run" /\ t.kind = "reconAdd" /\ Consumed(t)) =>
                /\ t.req.tempId \notin stores'[ReconcileStore(t.req)]
                /\ ReturnedId(t.resp) \in stores'[ReconcileStore(t.req)]
          /\ (t.caller = "run" /\ t.kind = "reconGet" /\ ReconcileEnds(t)) =>
                /\ t.req.tempId \notin stores'[ReconcileStore(t.req)]
                /\ stores' = stores ]_vars

\* a sale created offline has been replaced by the server's record, the
\* creation having been queued (its entry had key 1 and is gone)
C7_Witness ==
    /\ 2 \in stores["sales"] /\ -2 \notin stores["sales"]
    /\ tasks = EmptyBag /\ syncQueue = <<>> /\ nextKey = 2
    /\ handed = {Req("POST", "SalesOrder", NoId, -2)}

(***************************************************************************)
(* C8.  A queued PUT, PATCH or DELETE answered 404: when its queue entry   *)
(* has been deleted, the entry is gone from pending, nothing went to the   *)
(* failed collection, and the record the request targets is absent from    *)
(* the collection of its resource, or its deletion is on its way.          *)
(***************************************************************************)
\* the collection of the resource a URL names
TargetStore(req) ==
    IF LowerIncludes(req.url, "products") THEN "products"
    ELSE IF LowerIncludes(req.url, "customers") THEN "customers"
    ELSE IF LowerIncludes(req.url, "sales") THEN "sales"
    ELSE "purchases"

C8_ConflictResolved ==
    [][ \A i \in 1..Len(runs) :
          (/\ runs[i].phase = "del404"
           /\ CurrentEntry(runs[i]).req.method \in {"PUT", "PATCH", "DELETE"}
           /\ syncQueue' # syncQueue) =>
              LET e == CurrentEntry(runs[i])
              IN /\ e.id \notin Keys(syncQueue')
                 /\ failedQueue' = failedQueue
                 /\ \/ e.req.url.id \notin stores'[TargetStore(e.req)]
                    \/ \E t \in BagToSet(tasks') :
                          /\ t.kind = "localDel"
                          /\ ConflictStore(t.req) = TargetStore(e.req)
                          /\ ConflictId(t.req) = e.req.url.id ]_vars

(***************************************************************************)
(* C9, C10.  A run aborted by a transport failure (status 0) or by a 5xx.  *)
(***************************************************************************)
\* the step that delivers the failing answer ends the run whose item it
\* was: both collections are as before, the failing item and every later
\* snapshot item are pending in snapshot order, and no run is left that
\* could send them (a follow-up run starts with a fresh snapshot)
RunAborted ==
    \E i \in 1..Len(runs) :
        LET r == runs[i]
        IN /\ r.phase = "http"
           /\ CurrentEntry(r).id = httpEvent'.key
           /\ UNCHANGED <<syncQueue, failedQueue, tasks, stores>>
           /\ IsSubseq(SubSeq(r.snap, r.pos, Len(r.snap)), syncQueue')
           /\ \A j \in 1..Len(runs') : runs'[j] = NewRun
           /\ Len(runs') <= 1

C9_TransportFailureAborts ==
    [][ (Answered("run") /\ httpEvent'.status = 0) => RunAborted ]_vars

\* the first of two pending requests got no answer; both are still pending
C9_Witness ==
    /\ httpEvent.kind = "recv" /\ httpEvent.from = "run" /\ httpEvent.status = 0
    /\ Len(syncQueue) = 2 /\ httpEvent.key = syncQueue[1].id
    /\ failedQueue = <<>>

C10_ServerErrorAborts ==
    [][ (Answered("run") /\ httpEvent'.status >= 500) => RunAborted ]_vars

\* the second request of a snapshot was answered 503; it stays pending
C10_Witness ==
    /\ httpEvent.kind = "recv" /\ httpEvent.from = "run" /\ httpEvent.status = 503
    /\ Len(syncQueue) = 1 /\ httpEvent.key = syncQueue[1].id /\ httpEvent.key = 2

(***************************************************************************)
(* C11.  A queued request answered 400 during a run: the answer starts the *)
(* move to the failed collection; the move adds exactly one entry with the *)
(* request's url, method and payload, a non-empty error and a timestamp;   *)
(* then the entry is deleted from pending and the run goes on with the     *)
(* next snapshot item.                                                     *)
(***************************************************************************)
C11_RejectedMovesToFailed ==
    [][ \A i \in 1..Len(runs) :
          LET r == runs[i]
              e == CurrentEntry(r)
          IN /\ (r.phase = "http" /\ Answered("run") /\ httpEvent'.status = 400
                    /\ httpEvent'.key = e.id) =>
                  /\ Len(runs') >= i /\ runs'[i].phase = "addFailed"
                  /\ UNCHANGED <<syncQueue, failedQueue, tasks, stores>>
             /\ (r.phase = "addFailed" /\ runs' # runs) =>
                  /\ Len(failedQueue') = Len(failedQueue) + 1
                  /\ \E k \in 1..Len(failedQueue') :
                        /\ failedQueue'[k].req = e.req
                        /\ failedQueue'[k].error # ""
                        /\ failedQueue'[k].timestamp = Timestamp
                        /\ RemoveAt(failedQueue', k) = failedQueue
                  /\ syncQueue' = syncQueue
             /\ (r.phase = "delFailed" /\ runs' # runs) =>
                  /\ e.id \notin Keys(syncQueue')
                  /\ failedQueue' = failedQueue
                  /\ \E k \in 1..Len(failedQueue) : failedQueue[k].req = e.req
                  /\ NextPos(r.snap, r.pos + 1) # 0 =>
                        httpEvent' = SendEvent("run", r.snap[NextPos(r.snap, r.pos + 1)].id,
                                               r.snap[NextPos(r.snap, r.pos + 1)].req) ]_vars

\* the first of two queued requests has been moved to the failed collection
\* and the run has sent the second
C11_Witness ==
    /\ Len(failedQueue) = 1 /\ failedQueue[1].id = 1
    /\ Len(syncQueue) = 1 /\ syncQueue[1].id = 2
    /\ httpEvent = SendEvent("run", 2, syncQueue[1].req)

(***************************************************************************)
(* C12.  retryFailedRequest(item) removes the item from the failed         *)
(* collection and otherwise does what a fresh addToQueue of the item's     *)
(* url, method and payload does: online it sends the request at once and   *)
(* queues it only if that attempt fails, offline it sends nothing and      *)
(* queues it; the queueing adds exactly one pending entry.                 *)
(***************************************************************************)
\* the step starts an immediate attempt or a store write for request r
\* that no answered attempt asked for: a request has been handed in
HandsIn(r) ==
    /\ ~Answered("imm")
    /\ \/ CopiesIn(Task("exec", r, NoResp), tasks') > CopiesIn(Task("exec", r, NoResp), tasks)
       \/ CopiesIn(Task("enqueue", r, NoResp), tasks')
              > CopiesIn(Task("enqueue", r, NoResp), tasks)

C12_RetryIsRemoveThenAdd ==
    [][ /\ \A r \in Requests :
              HandsIn(r) =>
                 \E k \in 1..Len(failedQueue) :
                    LET item == failedQueue[k]
                    IN /\ item.req = r
                       /\ tasks' = Add(Add(tasks, FailedTask("failedDel", <<item>>)),
                                       Task(IF online THEN "exec" ELSE "enqueue", r, NoResp))
                       /\ httpEvent' = IF online THEN SendEvent("imm", NoId, r) ELSE NoEvent
                       /\ UNCHANGED <<syncQueue, failedQueue>>
        /\ \A t \in BagToSet(tasks) :
              /\ (t.kind = "failedDel" /\ Consumed(t)) =>
                    /\ t.snap[1].id \notin Keys(failedQueue')
                    /\ failedQueue' = RemoveKey(failedQueue, t.snap[1].id)
                    /\ syncQueue' = syncQueue
              /\ (t.kind = "enqueue" /\ Consumed(t)) =>
                    /\ syncQueue' = Append(syncQueue, [id |-> nextKey, req |-> t.req])
                    /\ failedQueue' = failedQueue
        /\ (Answered("imm") /\ httpEvent'.status = 200) =>
              /\ syncQueue' = syncQueue
              /\ \A t \in BagToSet(tasks') : t.kind = "enqueue" => BagIn(t, tasks)
        /\ (Answered("imm") /\ httpEvent'.status # 200) =>
              tasks' = Add(Remove(tasks, Task("exec", httpEvent'.req, NoResp)),
                           Task("enqueue", httpEvent'.req, NoResp)) ]_vars

\* the first failed entry has been retried while offline: it has left the
\* failed collection and is pending once
C12_Witness ==
    /\ ~online /\ tasks = EmptyBag /\ runs = <<>>
    /\ failedQueue = <<FailedAtStart[2]>>
    /\ syncQueue = <<[id |-> 3, req |-> FailedAtStart[1].req]>>

\* a retried entry has been sent at once, and accepted: it is in neither collection
C12_WitnessOnline ==
    /\ httpEvent = RecvEvent("imm", NoId, FailedAtStart[1].req, 200)
    /\ failedQueue = <<FailedAtStart[2]>> /\ syncQueue = <<>>

(***************************************************************************)
(* C13.  retryAllFailedRequests never leaves a request that was in the     *)
(* failed collection in neither collection: while it is at work every      *)
(* request of its snapshot is pending or failed; its bulk add appends one  *)
(* pending entry per snapshot item; its clear empties the failed           *)
(* collection and erases no entry of a snapshot request other than the     *)
(* snapshot entries themselves, which it has re-queued (any other such     *)
(* entry is the request failed once more, and is pending nowhere once the  *)
(* run that moved it has deleted its pending entry).                       *)
(***************************************************************************)
ReqsOf(q) == {q[k].req : k \in 1..Len(q)}

C13_RetryAllKeepsRequests ==
    [][ \A t \in BagToSet(tasks) :
          /\ (t.kind \in {"retryAllAdd", "retryAllClear"} /\ BagIn(t, tasks')) =>
                ReqsOf(t.snap) \subseteq ReqsOf(syncQueue') \cup ReqsOf(failedQueue')
          /\ (t.kind = "retryAllAdd" /\ Consumed(t)) =>
                /\ Len(syncQueue') = Len(syncQueue) + Len(t.snap)
                /\ \A k \in 1..Len(t.snap) :
                      syncQueue'[Len(syncQueue) + k].req = t.snap[k].req
                /\ failedQueue' = failedQueue
          /\ (t.kind = "retryAllClear" /\ Consumed(t)) =>
                /\ failedQueue' = <<>>
                /\ \A k \in 1..Len(failedQueue) :
                      failedQueue[k].req \in ReqsOf(t.snap) =>
                          \E j \in 1..Len(t.snap) : t.snap[j] = failedQueue[k] ]_vars

(***************************************************************************)
(* C14.  A run that has snapshot items left gives them up only when the    *)
(* answer to its current item is a transport failure or a 5xx; after any   *)
(* other outcome (success, 404, move to the failed collection) the         *)
(* deletion of the current entry is followed at once by the HTTP call of   *)
(* the next snapshot item, whatever record that item targets.              *)
(***************************************************************************)
ItemsLeft(r) == r.phase # "getAll" /\ NextPos(r.snap, r.pos + 1) # 0

C14_OnlyOutagesCutShort ==
    [][ \A i \in 1..Len(runs) :
          LET r == runs[i]
              n == NextPos(r.snap, r.pos + 1)
          IN /\ (ItemsLeft(r) /\ (Len(runs') < i \/ runs'[i].snap # r.snap)) =>
                   /\ Answered("run")
                   /\ httpEvent'.status = 0 \/ httpEvent'.status >= 500
             /\ (ItemsLeft(r) /\ r.phase = "http" /\ Answered("run")
                   /\ httpEvent'.key = r.snap[r.pos].id /\ httpEvent'.status = 404) =>
                   /\ Len(runs') >= i
                   /\ runs'[i].snap = r.snap /\ runs'[i].pos = r.pos
             /\ (ItemsLeft(r) /\ r.phase \in {"delOk", "del404", "delFailed"}
                   /\ runs' # runs) =>
                   /\ httpEvent' = SendEvent("run", r.snap[n].id, r.snap[n].req)
                   /\ runs'[i].pos = n ]_vars

\* the queued update of customer 1 was answered 404 (the local record has
\* been removed for it) and the queued delete of customer 1 has been sent
C14_Witness ==
    /\ httpEvent = SendEvent("run", 2, Req("DELETE", "customers", 1, NoTempId))
    /\ syncQueue = <<[id |-> 2, req |-> Req("DELETE", "customers", 1, NoTempId)]>>
    /\ failedQueue = <<>>
    /\ handed = {Req("PUT", "customers", 1, NoTempId), Req("DELETE", "customers", 1, NoTempId)}
    /\ 1 \notin stores["customers"]

(***************************************************************************)
(* C16.  Every value isOnline$() delivers to its subscriber differs from   *)
(* the value it delivered before.                                          *)
(***************************************************************************)
C16_NoRepeats ==
    [][ monitorEvent'.delivered => seenOnline' # seenOnline ]_vars

\* a probe has confirmed the state the monitor was in: online$ was given
\* the same value again and the subscriber was not
C16_Witness ==
    /\ monitorEvent.handler = "probe" /\ monitorEvent.status = 200
    /\ apiOnline /\ ~monitorEvent.delivered

(***************************************************************************)
(* C17.  An answered probe sets the monitor's state to reachable unless    *)
(* the answer is a transport failure (status 0), and checkNow produces the *)
(* state it set.                                                           *)
(***************************************************************************)
C17_OnlyTransportFailureIsOffline ==
    [][ monitorEvent'.handler = "probe" =>
          /\ apiOnline' = (monitorEvent'.status # 0)
          /\ monitorEvent'.produced = {apiOnline'} ]_vars

\* a probe was answered 503 and the monitor's state is reachable
C17_Witness ==
    /\ monitorEvent.handler = "probe" /\ monitorEvent.status = 503
    /\ apiOnline /\ monitorEvent.produced = {TRUE}

\* a probe failed with status 0 and the monitor's state is unreachable
C17_WitnessOffline ==
    /\ monitorEvent.handler = "probe" /\ monitorEvent.status = 0
    /\ ~apiOnline /\ monitorEvent.produced = {FALSE} /\ navigatorOnLine

(***************************************************************************)
(* C18.  With the local interface unavailable, the offline event handler,  *)
(* checkNow and the poll tick each leave the monitor's state offline and   *)
(* send no probe.                                                          *)
(***************************************************************************)
C18_InterfaceDownMeansOffline ==
    [][ (monitorEvent'.handler \in {"offline", "checkNow", "tick"}
           /\ ~navigatorOnLine') =>
          /\ ~apiOnline'
          /\ ~monitorEvent'.sent
          /\ \A o \in ProbeOrigins : CopiesIn(o, probes') <= CopiesIn(o, probes) ]_vars
\* the sale with temp id T went through the pending collection, a run sent its
\* POST, the API created record N, and nothing is in flight any more
SaleSynchronized(T, N) ==
    /\ SaleCreate(T) \in handed
    /\ nextKey > 1
    /\ syncQueue = <<>> /\ failedQueue = <<>>
    /\ runs = <<>> /\ ~isProcessingQueue
    /\ tasks = EmptyBag /\ svcTasks = EmptyBag
    /\ N \in server["sales"]

\* C15: once a sale created with temp id T has been synchronized by a run
\* whose POST the API answered with {order_id: N}, and the pending collection
\* is empty, the cached sales list of SalesService holds a record with id N
\* and no record with id T.
C15_CacheFollowsReconciliation ==
    \A T \in TempSaleIds, N \in ServerIds :
        SaleSynchronized(T, N) => N \in salesCache /\ T \notin salesCache

\* the update operations of the Domain Record Services, the store and the
\* cached list each works on
UpdateOps == SaleUpdateOps \cup {"updateCustomer"}
StoreOfOp(op) == IF op = "updateCustomer" THEN "customers" ELSE "sales"
CacheOfOp(op) == IF op = "updateCustomer" THEN customersCache ELSE salesCache

\* the durable store holds the edited state of the record, and so does the
\* cached list if it holds the record
ReflectsEdit(op, id) ==
    /\ <<StoreOfOp(op), id>> \in edited.db
    /\ id \in CacheOfOp(op) => <<StoreOfOp(op), id>> \in edited.cache

\* C20: an update operation (updateCustomer, updateSaleWithStatus,
\* updateSaleStatus) writes the new state of the record to the durable store
\* and to the in-memory cache before its remote call: when the PUT/PATCH is
\* sent, the local state already reflects the edit, so that it does whether
\* the call then succeeds or fails.
C20_EditIsLocalBeforeRemoteCall ==
    svcEvent.op \in UpdateOps /\ svcEvent.kind = "send"
        => ReflectsEdit(svcEvent.op, svcEvent.id)

\* the same for the update operations of SalesService alone
C20_SalesEditIsLocalBeforeRemoteCall ==
    svcEvent.op \in SaleUpdateOps /\ svcEvent.kind = "send"
        => ReflectsEdit(svcEvent.op, svcEvent.id)

\* updateCustomer's PUT has failed and nothing of the call is left
C20_CustomerPutFailed ==
    /\ svcEvent = SvcRecv("updateCustomer", 1, 0)
    /\ svcTasks = EmptyBag
    /\ <<"customers", 1>> \notin edited.db

\* this step starts the refresh whose first call is the task `kind`
StartsRefresh(kind) ==
    \E t \in BagToSet(svcTasks') :
        t.kind = kind /\ CopiesIn(t, svcTasks') > CopiesIn(t, svcTasks)

\* C19: at each transition of the connectivity monitor from unreachable to
\* reachable, each Domain Record Service (sales and customers) starts a
\* refresh of its records from the API.
C19_EveryServiceRefreshes ==
    [][~apiOnline /\ apiOnline' /\ monitorEvent'.delivered
         => StartsRefresh("salesFetch") /\ StartsRefresh("customersFetch")]_vars

\* the same for SalesService alone
C19_SalesServiceRefreshes ==
    [][~apiOnline /\ apiOnline' /\ monitorEvent'.delivered
         => StartsRefresh("salesFetch")]_vars

\* the API has become reachable after the construction and no refresh of the
\* customers is in flight
C19_ReachableWithoutCustomersRefresh ==
    /\ apiOnline /\ monitorEvent.delivered
    /\ \A t \in BagToSet(svcTasks) : t.kind = "salesFetch"

\* the step is the call of operation `op` of a service (no call of it was in
\* flight, one is now), resp. the end of the call
Calls(op) ==
    /\ \A t \in BagToSet(svcTasks) : t.op # op
    /\ \E t \in BagToSet(svcTasks') : t.op = op
Completes(op) ==
    /\ \E t \in BagToSet(svcTasks) : t.op = op
    /\ \A t \in BagToSet(svcTasks') : t.op # op

\* the requests the step hands to the Sync Engine's addToQueue
HandedOver == handed' \ handed

\* a delete operation called for record id: not reachable, it sends nothing
\* and hands over the one DELETE request of the record; when it ends, the
\* record is in neither the store nor the cached list
DeletesAsClaimed(op, id, req, n) ==
    /\ Calls(op) /\ ~apiOnline => svcEvent'.kind # "send" /\ HandedOver = {req}
    /\ Completes(op) =>
          /\ id \notin stores'[n]
          /\ id \notin (IF n = "customers" THEN customersCache' ELSE salesCache')

\* C21: a delete operation (deleteCustomer, deleteSale) removes the record
\* from the local store and the cache; called while the API is not reachable
\* it issues no remote request and hands exactly one DELETE request for the
\* record to the Sync Engine.
C21_DeleteIsLocalAndQueuedWhenUnreachable ==
    [][ /\ \A id \in DeletedSales :
              DeletesAsClaimed("deleteSale", id, SaleDelete(id), "sales")
        /\ \A id \in DeletedCustomers :
              DeletesAsClaimed("deleteCustomer", id, CustomerDelete(id), "customers")
      ]_vars

\* the same for deleteSale alone
C21_DeleteSaleIsLocalAndQueuedWhenUnreachable ==
    [][\A id \in DeletedSales :
          DeletesAsClaimed("deleteSale", id, SaleDelete(id), "sales")]_vars

\* deleteCustomer, called while the API is not reachable, has sent its DELETE
C21_CustomerDeleteSentWhileUnreachable ==
    /\ ~apiOnline
    /\ svcEvent = SvcSend("deleteCustomer", 1)
    /\ handed = {}

\* deleteCustomer's DELETE has failed: the call is over, the record is still
\* in the store and in the cached list, nothing is queued
C21_CustomerDeleteFailed ==
    /\ svcEvent = SvcRecv("deleteCustomer", 1, 0)
    /\ \A t \in BagToSet(svcTasks) : t.op # "deleteCustomer"
    /\ 1 \in stores["customers"] /\ 1 \in customersCache
    /\ handed = {} /\ tasks = EmptyBag

\* the step consumes a task of kind `kind` of a service: the record id it is about
Ended(kind) == {t.id : t \in {u \in BagToSet(svcTasks) :
                                  u.kind = kind /\ CopiesIn(u, svcTasks') < CopiesIn(u, svcTasks)}}

\* the step is the answer `status` to the remote call of operation `op`
AnsweredTo(op, status) ==
    svcEvent'.kind = "recv" /\ svcEvent'.op = op /\ svcEvent'.status = status

\* after the step the temp record T is stored and cached
KeepsTemp(n, cache, T) == T < 0 /\ T \in stores'[n] /\ T \in cache

\* the step hands over the one POST correlated with a stored temp record
QueuesCreate(n, req) == \E T \in DOMAIN req : T \in stores'[n] /\ HandedOver = {req[T]}

SaleCreates == [T \in TempSaleIds |-> SaleCreate(T)]
CustomerCreates == [T \in TempCustomerIds |-> CustomerCreate(T)]

\* C22: a create operation (addCustomer, saveSaleWithStatus) performed while
\* the API is not reachable, or whose immediate POST fails, stores and caches
\* a record with a negative temporary id T and hands exactly one POST request
\* with payload.tempId = T to the Sync Engine's addToQueue.
C22_CreateFallsBackToTempRecord ==
    [][ /\ \A T \in Ended("saleAdd") :
              /\ KeepsTemp("sales", salesCache', T)
              /\ ~apiOnline => HandedOver = {SaleCreate(T)}
        /\ \A T \in Ended("customerAdd") :
              /\ KeepsTemp("customers", customersCache', T)
              /\ ~apiOnline => HandedOver = {CustomerCreate(T)}
        /\ \A st \in SvcStatuses \ {200} :
              /\ AnsweredTo("saveSale", st) => QueuesCreate("sales", SaleCreates)
              /\ AnsweredTo("addCustomer", st) => QueuesCreate("customers", CustomerCreates)
      ]_vars

\* the same for saveSaleWithStatus alone
C22_SaveSaleFallsBackToTempRecord ==
    [][ /\ \A T \in Ended("saleAdd") :
              /\ KeepsTemp("sales", salesCache', T)
              /\ ~apiOnline => HandedOver = {SaleCreate(T)}
        /\ \A st \in SvcStatuses \ {200} :
              AnsweredTo("saveSale", st) => QueuesCreate("sales", SaleCreates)
      ]_vars

\* ... and for addCustomer performed while not reachable
C22_AddCustomerOfflineKeepsTempRecord ==
    [][\A T \in Ended("customerAdd") :
          /\ KeepsTemp("customers", customersCache', T)
          /\ ~apiOnline => HandedOver = {CustomerCreate(T)}]_vars

\* addCustomer's POST has failed: the call is over, no temp customer is stored
\* or cached, nothing is handed to the engine
C22_CustomerPostFailed ==
    /\ svcEvent = SvcRecv("addCustomer", NoId, 0)
    /\ \A t \in BagToSet(svcTasks) : t.op # "addCustomer"
    /\ \A id \in stores["customers"] \cup customersCache : id > 0
    /\ handed = {}

\* the record created under the server-assigned id N is stored and cached,
\* and the temp record T of the creation, if it had one, is not
HoldsServerRecord(n, cache, N, temps) ==
    /\ N \in stores'[n] /\ N \in cache
    /\ \A T \in temps : T \notin stores'[n] /\ T \notin cache

\* C23: when a create operation whose remote POST succeeded while the API is
\* reachable ends, the local store and the cache hold the record keyed by the
\* server-assigned positive id, and no record keyed by the temporary id of
\* that creation.
C23_SuccessfulCreateIsKeyedByServerId ==
    [][ /\ \A T \in Ended("saleOrderId") : \A N \in ServerIds \cap server["sales"] :
              HoldsServerRecord("sales", salesCache', N, {T})
        /\ \A kind \in {"custUpdate", "custAdd"} : \A N \in Ended(kind) :
              (\E t \in BagToSet(svcTasks) : t.op = "addCustomer" /\ t.kind = kind)
                 => HoldsServerRecord("customers", customersCache', N, {})
      ]_vars

\* the same for addCustomer alone
C23_AddedCustomerIsKeyedByServerId ==
    [][\A kind \in {"custUpdate", "custAdd"} : \A N \in Ended(kind) :
          (\E t \in BagToSet(svcTasks) : t.op = "addCustomer" /\ t.kind = kind)
             => HoldsServerRecord("customers", customersCache', N, {})]_vars

\* saveSaleWithStatus has ended after a successful POST: the API holds sale 2,
\* the store and the cache hold the sale under its temp id -2 and not under 2
C23_SaleStaysUnderTempId ==
    /\ svcTasks = EmptyBag
    /\ 2 \in server["sales"]
    /\ -2 \in stores["sales"] /\ -2 \in salesCache
    /\ 2 \notin stores["sales"] /\ 2 \notin salesCache
    /\ handed = {}

\* statuses with which the API rejects a request it has received
SvcRejections == {st \in SvcStatuses : st \notin {200, 0}}

\* the create, update and delete operations of the services
MutatingOps == {"saveSale", "addCustomer"} \cup UpdateOps \cup {"deleteSale", "deleteCustomer"}

\* C24: a create, update or delete issued while the API is reachable that
\* fails with a response not caused by connectivity (a 400 validation status)
\* is not queued: the step that receives the rejection hands no request to
\* the Sync Engine's addToQueue, so that no pending entry results from it.
C24_RejectedCallIsNotQueued ==
    [][\A op \in MutatingOps, st \in SvcRejections :
          AnsweredTo(op, st) => HandedOver = {}]_vars

\* the same for addCustomer alone
C24_RejectedCustomerIsNotQueued ==
    [][\A st \in SvcRejections : AnsweredTo("addCustomer", st) => HandedOver = {}]_vars

\* saveSaleWithStatus' POST was rejected with a 400 and the call has handed
\* its POST to addToQueue
C24_RejectedSaleHandedOver ==
    /\ svcEvent = Returning(SvcRecv("saveSale", -2, 400), FALSE)
    /\ handed = {SaleCreate(-2)}
    /\ BagToSet(tasks) = {addToQueue(online, SaleCreate(-2))}

\* the entries of q that were read back without an id
LacksId(e) == e.id = NoId
IdLess(q) == SelectSeq(q, LacksId)

\* the first position after p of a snapshot item that has an id (0: none)
FirstWithId(snap, p) ==
    IF \E k \in (p + 1)..Len(snap) : ~LacksId(snap[k])
    THEN CHOOSE k \in (p + 1)..Len(snap) :
            ~LacksId(snap[k]) /\ \A j \in (p + 1)..(k - 1) : LacksId(snap[j])
    ELSE 0

\* the step in which run i takes its snapshot, resp. is through with an item
TakesSnapshot(i) == runs[i].phase = "getAll" /\ (Len(runs') < i \/ runs'[i] # runs[i])
ItemDone(i) ==
    /\ runs[i].phase \in {"delOk", "del404", "delFailed"}
    /\ Len(runs') < i \/ runs'[i] # runs[i]

\* run i is now sending the snapshot item at position k
GoesOnWith(i, snap, k) ==
    /\ Len(runs') >= i
    /\ runs'[i].phase = "http" /\ runs'[i].snap = snap /\ runs'[i].pos = k
    /\ httpEvent' = SendEvent("run", snap[k].id, snap[k].req)

\* C25: a pending request read back without an id is never sent to the API,
\* never deleted from the pending collection and never moved to the failed
\* collection; the run does not end because of it but goes on with the next
\* snapshot item that has an id.
C25_EntryWithoutIdIsSkipped ==
    [][ /\ httpEvent'.from = "run" => httpEvent'.key # NoId
        /\ IdLess(syncQueue') = IdLess(syncQueue)
        /\ IdLess(failedQueue') = <<>>
        /\ \A i \in 1..Len(runs) :
              /\ (TakesSnapshot(i) /\ FirstWithId(syncQueue, 0) # 0) =>
                    GoesOnWith(i, syncQueue, FirstWithId(syncQueue, 0))
              /\ (ItemDone(i) /\ FirstWithId(runs[i].snap, runs[i].pos) # 0) =>
                    GoesOnWith(i, runs[i].snap, FirstWithId(runs[i].snap, runs[i].pos))
      ]_vars

\* a run has passed an entry without an id and is sending the item after it,
\* the entry still pending
C25_Witness ==
    \E i \in 1..Len(runs) :
        LET r == runs[i]
        IN /\ r.phase = "http" /\ r.pos > 1
           /\ LacksId(r.snap[r.pos - 1])
           /\ IdLess(syncQueue) = IdLess(r.snap)
           /\ httpEvent.kind = "send" /\ httpEvent.key = r.snap[r.pos].id

\* a run is over, every entry with an id has left the pending collection and
\* the entries without an id are all that is pending
C25_WitnessLeftBehind ==
    /\ runs = <<>> /\ tasks = EmptyBag /\ online
    /\ syncQueue # <<>> /\ IdLess(syncQueue) = syncQueue
    /\ failedQueue # <<>>

(***************************************************************************)
(* The page fetched from the cached sales.                                 *)
(***************************************************************************)
\* the cached sales as the page fetch sees them, after the optional date filter
FilteredSales ==
    filterByDate([i \in 1..Len(pageFetch.rows) |-> mapApiSale(pageFetch.rows[i])],
                 pageFetch.dateRange)

\* how often a sale occurs in a list
Occurrences(list, x) == Cardinality({i \in 1..Len(list) : list[i] = x})

SameSales(a, b) ==
    \A x \in {a[i] : i \in 1..Len(a)} \cup {b[i] : i \in 1..Len(b)} :
        Occurrences(a, x) = Occurrences(b, x)

\* order date descending, ties by identifier descending
MostRecentFirst(list) ==
    \A i \in 1..(Len(list) - 1) :
        \/ list[i].order_date > list[i + 1].order_date
        \/ /\ list[i].order_date = list[i + 1].order_date
           /\ list[i].id >= list[i + 1].id

\* the filtered sales in that order
SortedSales ==
    CHOOSE l \in [1..Len(FilteredSales) -> {FilteredSales[i] : i \in 1..Len(FilteredSales)}] :
        SameSales(l, FilteredSales) /\ MostRecentFirst(l)

\* the pages 0..n-1 of the current page size and date range, one after another
RECURSIVE PagesUpTo(_)
PagesUpTo(n) ==
    IF n = 0 THEN <<>>
    ELSE PagesUpTo(n - 1) \o fetchSalesPageOffline(pageFetch.rows, n - 1, pageFetch.pageSize,
                                                   pageFetch.dateRange).items

\* C26: for a page index p >= 0 and a page size s > 0 the offline page fetch
\* emits exactly the elements [p*s, p*s+s) of the filtered cached sales sorted
\* by order date descending, ties by identifier descending; totalCount is the
\* number of filtered sales and totalPages is ceil(totalCount / s); the pages
\* 0..totalPages-1 together hold every filtered sale exactly once
C26_OfflinePageIsSliceOfSortedSales ==
    (pageFetch.asked /\ pageFetch.pageSize > 0) =>
        LET r == pageFetch.result
            s == pageFetch.pageSize
            first == pageFetch.pageIndex * s
            n == Len(FilteredSales)
            left == IF n > first THEN n - first ELSE 0
        IN /\ Len(r.items) = (IF left < s THEN left ELSE s)
           /\ \A k \in 1..Len(r.items) : r.items[k] = SortedSales[first + k]
           /\ r.totalCount = n
           /\ r.totalPages * s >= n
           /\ (r.totalPages - 1) * s < n
           /\ SameSales(PagesUpTo(r.totalPages), FilteredSales)

\* the second page of size 1 of two sales of the same day and time, a third
\* sale being filtered out: the sale with the smaller identifier
C26_Witness ==
    /\ pageFetch.asked
    /\ pageFetch.pageSize = 1 /\ pageFetch.pageIndex = 1
    /\ pageFetch.dateRange = [start |-> 2, end |-> 2]
    /\ Len(pageFetch.rows) = 3
    /\ Len(FilteredSales) = 2
    /\ FilteredSales[1].order_date = FilteredSales[2].order_date
    /\ FilteredSales[1].id < FilteredSales[2].id
    /\ pageFetch.result.items = <<FilteredSales[1]>>
    /\ pageFetch.result.totalPages = 2

(***************************************************************************)
(* The observable views against the durable collections.                   *)
(***************************************************************************)
\* the phases of a run and the tasks that wait for the HTTP call, not for a store
WaitsForStore(task) == task.kind # "exec"

NoStoreOperationInFlight ==
    /\ ~refreshing.pending /\ ~refreshing.failed
    /\ \A t \in BagToSet(tasks) : ~WaitsForStore(t)
    /\ \A i \in 1..Len(runs) : runs[i].phase = "http"

\* C27: the views are re-read after every mutation of the pending or the
\* failed collection: whenever no store operation is in flight,
\* getPendingRequests holds the durable pending collection, getFailedRequests
\* the durable failed collection, and getPendingRequestCount the size of the
\* pending collection
C27_ViewsFollowCollections ==
    NoStoreOperationInFlight =>
        /\ pendingRequests = syncQueue
        /\ failedRequests = failedQueue
        /\ getPendingRequestCount = Len(syncQueue)

\* a retried entry is pending under a new key, the failed collection was
\* emptied, every read is delivered
C27_Witness ==
    /\ NoStoreOperationInFlight
    /\ Len(syncQueue) = 1 /\ syncQueue[1].id = 2
    /\ failedQueue = <<>>
    /\ failedRequests = <<>>
    /\ pendingRequests = syncQueue

\* an entry came back to the failed collection after its retry failed, and
\* the views show it
C27_WitnessFailedAgain ==
    /\ NoStoreOperationInFlight
    /\ syncQueue = <<>>
    /\ Len(failedQueue) = 1 /\ failedQueue[1].id = 2
    /\ failedRequests = failedQueue

(***************************************************************************)
(* The engine's reachability state against the monitor.                    *)
(***************************************************************************)
BecomesReachable == ~apiOnline /\ apiOnline'

RunStarts ==
    /\ ~isProcessingQueue /\ isProcessingQueue'
    /\ Len(runs') = Len(runs) + 1
    /\ runs'[Len(runs')].phase = "getAll"

RerunRequested ==
    /\ isProcessingQueue /\ isProcessingQueue'
    /\ queueProcessRequestedWhileRunning'
    /\ runs' = runs

\* C28: each time the connectivity monitor changes from unreachable to
\* reachable, the engine sets its reachability state to reachable and
\* triggers processQueue: a run starts, or a rerun is requested when one is
\* active; the engine's reachability state is always the value the monitor
\* delivered last
C28_EngineFollowsMonitor ==
    /\ online = seenOnline
    /\ [][/\ online' = seenOnline'
          /\ BecomesReachable => (online' /\ (RunStarts \/ RerunRequested))]_vars

\* the monitor has just delivered `reachable` while a run waits for its HTTP
\* call: a rerun is requested; the local interface is reported unavailable
C28_Witness ==
    /\ monitorEvent.delivered /\ seenOnline
    /\ online /\ ~navigatorOnLine
    /\ isProcessingQueue /\ queueProcessRequestedWhileRunning
    /\ Len(runs) = 1 /\ runs[1].phase = "http"

\* the monitor has just delivered `reachable` and a run was started
C28_WitnessRunStarted ==
    /\ monitorEvent.delivered /\ seenOnline
    /\ online /\ isProcessingQueue /\ ~queueProcessRequestedWhileRunning
    /\ Len(runs) = 1 /\ runs[1].phase = "getAll"

(***************************************************************************)
(* How an entry leaves the pending collection.                             *)
(***************************************************************************)
Entries(q) == {q[i] : i \in 1..Len(q)}

LeavesPending(e) == e \in Entries(syncQueue) /\ e \notin Entries(syncQueue')

HasFailedEntry(e) == \E f \in Entries(failedQueue') : f.id = e.id /\ f.req = e.req

\* the statuses the runs that work on entry e got for it (200 until an error)
AnswersFor(e) == {runs[i].status : i \in {j \in 1..Len(runs) : CurrentEntry(runs[j]) = e}}

Ignorable(e, status) == status = 404 /\ e.req.method \in {"PUT", "PATCH", "DELETE"}

\* C29: a pending entry leaves the pending collection without a failed entry
\* only when its request succeeded or when it is a PUT, PATCH or DELETE that
\* received a 404; a queued POST that receives a 404 is moved to the failed
\* collection
C29_LeavesOnlyOnSuccessOrStale404 ==
    [][\A e \in Entries(syncQueue) :
          (LeavesPending(e) /\ ~HasFailedEntry(e)) =>
              \E status \in AnswersFor(e) : status = 200 \/ Ignorable(e, status)]_vars

\* the same for the entries that are no POST: holds
C29_EditLeavesOnlyOnSuccessOrStale404 ==
    [][\A e \in Entries(syncQueue) :
          (e.req.method # "POST" /\ LeavesPending(e) /\ ~HasFailedEntry(e)) =>
              \E status \in AnswersFor(e) : status = 200 \/ Ignorable(e, status)]_vars

\* a queued POST was answered 404: the run deletes its entry from the pending
\* collection, and nothing was added to the failed collection
C29_PostDiscarded ==
    /\ \E i \in 1..Len(runs) :
          /\ runs[i].phase = "del404" /\ runs[i].status = 404
          /\ CurrentEntry(runs[i]).req.method = "POST"
    /\ failedQueue = <<>>

(***************************************************************************)
(* What the 404 conflict handling deletes.                                 *)
(***************************************************************************)
\* the local deletion that handleSyncError fired for request req completes
ConflictDeletionDone(req) ==
    \E t \in BagToSet(tasks) :
        /\ t.kind = "localDel" /\ t.req = req
        /\ CopiesIn(t, tasks') < CopiesIn(t, tasks)

OnlyNamedRecordDeleted(req) ==
    \A n \in StoreNames :
        stores'[n] = IF n = TargetStore(req) THEN stores[n] \ {req.url.id} ELSE stores[n]

\* C30: the 404 conflict handling of a queued PUT or PATCH deletes a local
\* record only from the collection of the resource the URL names, and only
\* the record whose id is the URL's last segment; every other collection is
\* left unchanged
C30_ConflictDeletesOnlyNamedRecord ==
    [][\A req \in Requests : ConflictDeletionDone(req) => OnlyNamedRecordDeleted(req)]_vars

\* the same for the requests whose URL names the customers: holds
C30_CustomerConflictDeletesOnlyNamedRecord ==
    [][\A req \in Requests :
          (ConflictDeletionDone(req) /\ TargetStore(req) = "customers") =>
              OnlyNamedRecordDeleted(req)]_vars

\* only the update of sale 1 was handed in, and customer 1 is gone while
\* sale 1 is still stored
C30_CustomerDeletedForSale ==
    /\ handed = {Req("PUT", "SalesOrder", 1, 1)}
    /\ 1 \notin stores["customers"]
    /\ 1 \in stores["sales"]

(***************************************************************************)
(* The engine's two flags as one state.                                    *)
(***************************************************************************)
EngineState == <<isProcessingQueue, queueProcessRequestedWhileRunning>>

Idle == <<FALSE, FALSE>>
Running == <<TRUE, FALSE>>
RunningWithRerunPending == <<TRUE, TRUE>>

\* C31: in every reachable state the pair (isProcessingQueue,
\* queueProcessRequestedWhileRunning) is Idle, Running or
\* RunningWithRerunPending: the rerun flag is never set while no run is
\* active, also after a run ended while the API is unreachable
C31_EngineStateIsOneOfThree ==
    EngineState \in {Idle, Running, RunningWithRerunPending}

\* the same while the API is reachable: holds
C31_EngineStateIsOneOfThreeWhileReachable ==
    online => EngineState \in {Idle, Running, RunningWithRerunPending}

\* no run is active, the engine is unreachable and the rerun flag is set
C31_RerunFlagLeftSet ==
    /\ ~online /\ runs = <<>>
    /\ ~isProcessingQueue /\ queueProcessRequestedWhileRunning

(***************************************************************************)
(* Every run ends.                                                         *)
(***************************************************************************)
\* finalize: the flag is reset, or reset and set again by the rerun it starts
RunEnds ==
    /\ isProcessingQueue
    /\ \/ ~isProcessingQueue'
       \/ queueProcessRequestedWhileRunning /\ ~queueProcessRequestedWhileRunning'

\* C32: every run ends with isProcessingQueue reset, whether it exhausts the
\* snapshot, is aborted by a transport failure or a 5xx, or fails on a store
\* error: the flag is set exactly while a run is active, a processQueue call
\* made while no run is active and the engine is reachable starts a run, and,
\* every issued call completing or failing, the engine does not stay in one
\* run forever
C32_EveryRunEnds ==
    /\ [](isProcessingQueue <=> Len(runs) = 1)
    /\ [][(ProcessQueue /\ online /\ ~isProcessingQueue) => RunStarts]_vars
    /\ ([]<>(~isProcessingQueue) \/ []<><<RunEnds>>_vars)

\* a run failed on a store error after it had moved an entry to the failed
\* collection: the entry is in both collections, no run is active
C32_Witness ==
    /\ online /\ ~isProcessingQueue /\ runs = <<>>
    /\ Keys(failedQueue) \cap Keys(syncQueue) # {}

(***************************************************************************)
(* An accepted entry is not sent again.                                    *)
(***************************************************************************)
\* a run sends the request of the pending entry with key k
RunSends(k) ==
    /\ httpEvent'.kind = "send" /\ httpEvent'.from = "run"
    /\ httpEvent'.key = k

BeingMoved(e) ==
    \E i \in 1..Len(runs') : runs'[i].phase = "delFailed" /\ CurrentEntry(runs'[i]) = e

\* after the step the request of f is in the failed collection, or in a
\* pending entry that stays
StillKept(f) ==
    \/ f.req \in ReqsOf(failedQueue')
    \/ \E e \in Entries(syncQueue') : e.req = f.req /\ ~BeingMoved(e)

\* C34: retryAllFailedRequests beside an active run loses no request: a
\* request that the run moved into the failed collection after
\* retryAllFailedRequests read its snapshot and before it clears the failed
\* collection is still pending or failed afterwards
C34_RetryAllBesideRunKeepsRequests ==
    [][\A t \in BagToSet(tasks) :
          (t.kind = "retryAllClear" /\ Consumed(t)) =>
              \A f \in Entries(failedQueue) \ Entries(t.snap) : StillKept(f)]_vars

\* the failed collection holds an entry that is not in the snapshot of the
\* retryAllFailedRequests whose clear is in flight
C34_MovedAfterSnapshot ==
    \E t \in BagToSet(tasks) :
        /\ t.kind = "retryAllClear"
        /\ Entries(failedQueue) \ Entries(t.snap) # {}

(***************************************************************************)
(* A request persisted while the API is reachable.                         *)
(***************************************************************************)
PendingKeys == 1..(MaxCalls + 1)

\* the state after a run sent the request of the pending entry with key k
RunSent(k) == httpEvent.kind = "send" /\ httpEvent.from = "run" /\ httpEvent.key = k

\* C35: a request persisted to the pending collection while the API stays
\* reachable is eventually attempted by a run without a further change from
\* unreachable to reachable: from every state in which the engine is
\* reachable and the entry is pending, the entry is sent by a run (and then
\* leaves the pending collection), or the engine becomes unreachable
C35_PendingIsAttemptedWhileReachable ==
    \A k \in PendingKeys :
        (online /\ k \in Keys(syncQueue)) ~>
            (~online \/ RunSent(k) \/ k \notin Keys(syncQueue))

\* the same for the entries in the snapshot of an active run: holds
C35_SnapshotIsAttemptedWhileReachable ==
    \A k \in PendingKeys :
        (online /\ k \in Keys(syncQueue)
                /\ \E i \in 1..Len(runs) : k \in Keys(runs[i].snap)) ~>
            (~online \/ RunSent(k) \/ k \notin Keys(syncQueue))

\* the engine is reachable and idle, nothing is in flight, and an entry is pending
C35_PendingWhileIdle ==
    /\ online /\ ~isProcessingQueue /\ runs = <<>>
    /\ tasks = EmptyBag
    /\ syncQueue # <<>>

\* the operations that send a PUT, PATCH or DELETE themselves
EditOps == UpdateOps \cup {"deleteSale", "deleteCustomer"}

\* this state follows a step that sent a PUT, PATCH or DELETE addressing the
\* record by the id `id`: by a service itself, or by the Sync Engine
EditSentFor(id) ==
    \/ svcEvent.kind = "send" /\ svcEvent.op \in EditOps /\ svcEvent.id = id
    \/ /\ httpEvent.kind = "send"
       /\ httpEvent.req.method \in {"PUT", "PATCH", "DELETE"}
       /\ httpEvent.req.url.id = id

TempIds == TempSaleIds \cup TempCustomerIds

\* C36: no PUT, PATCH or DELETE is ever sent to the remote API with a URL
\* that addresses the record by a temporary (negative) id: an update or
\* delete of a record created while unreachable, made before its creation is
\* reconciled, is not sent against the placeholder id.
C36_NoEditSentWithTempId == \A id \in TempIds : ~EditSentFor(id)

\* a temp sale whose POST is still pending was edited while reachable, and
\* the PUT went out to /SalesOrder/<tempId>
C36_PutSentForTempSale ==
    /\ svcEvent = SvcSend("updateSaleWithStatus", -2)
    /\ SaleCreate(-2) \in handed
    /\ -2 \in stores["sales"]

\* C37: a probe response that arrives after the local interface has gone
\* unavailable does not set the monitor back to reachable: from the handling
\* of an interface-offline event until the next interface-online event
\* (navigator.onLine is false in between), isOnlineNow() is false.
C37_OfflineWhileInterfaceDown == ~navigatorOnLine => ~apiOnline

\* the step of the claim alone: the answer to a probe, handled while the
\* interface is unavailable, leaves the monitor's state offline
C37_LateAnswerLeavesOffline ==
    [][(monitorEvent'.handler = "probe" /\ ~navigatorOnLine') => ~apiOnline']_vars

\* a probe sent before the offline event was answered after it, and the
\* monitor says reachable while the interface is unavailable
C37_LateAnswerSetsReachable ==
    /\ monitorEvent.handler = "probe" /\ monitorEvent.status = 200
    /\ ~navigatorOnLine
    /\ apiOnline

\* the store a creation request belongs to
StoreOfCreate(req) == IF req.url.path = "customers" THEN "customers" ELSE "sales"

\* the creation of the record tempId of store n is still pending
CreationPending(n, tempId) ==
    \E e \in Entries(syncQueue) :
        e.req.method = "POST" /\ StoreOfCreate(e.req) = n /\ e.req.tempId = tempId

\* C38: a refresh from the API never removes or overwrites a local record
\* with a temporary (negative) id whose creation request is still pending:
\* the store holds the record for as long as its POST is pending, through
\* the sales page fetch and through the customers refresh.
C38_RefreshKeepsPendingTempRecords ==
    \A n \in {"sales", "customers"}, tempId \in TempIds :
        CreationPending(n, tempId) => tempId \in stores[n]

\* the same for the sales alone: holds
C38_SalesRefreshKeepsPendingTempSale ==
    \A tempId \in TempSaleIds :
        CreationPending("sales", tempId) => tempId \in stores["sales"]

\* the customers refresh has run to its end, and the customer created while
\* unreachable is gone while its POST is pending
C38_TempCustomerCleared ==
    /\ CreationPending("customers", -1)
    /\ -1 \notin stores["customers"]
    /\ 1 \in stores["customers"]
    /\ svcTasks = EmptyBag

\* the steps of handleSuccessfulPost in flight for a request a run sent
ReconciliationsOfRuns ==
    {t \in BagToSet(tasks) : t.kind \in {"reconGet", "reconDel", "reconAdd"}
                             /\ t.caller = "run"}

\* this state follows the step in which a run sent a request
RunSentRequest == httpEvent.kind = "send" /\ httpEvent.from = "run"

\* C39: the reconciliation of a successful queued creation (look up the
\* placeholder, delete it, insert the server record) is complete before the
\* next queued request of the run is executed: when a run sends a request,
\* no reconciliation started for an earlier request of a run is in flight.
C39_ReconciledBeforeNextRequest == RunSentRequest => ReconciliationsOfRuns = {}

\* a run sent its next request while the placeholder of the creation before
\* it was deleted and the server record not yet inserted
C39_NextSentInHalfFinishedReconciliation ==
    /\ RunSentRequest
    /\ \E t \in ReconciliationsOfRuns :
          /\ t.kind = "reconAdd"
          /\ t.req.tempId \notin stores[ReconcileStore(t.req)]

\* the operations that emit { sale, savedOnline }, the records they are called
\* for and the request each hands to addToQueue
StatusOps == {"saveSale", "updateSaleWithStatus"}
SalesOf(op) == IF op = "saveSale" THEN TempSaleIds ELSE EditedSales
MutationOf(op, id) == IF op = "saveSale" THEN SaleCreate(id) ELSE SaleUpdate(op, id)

\* the step emits the result of the operation op called for the record id
Emits(op, id, savedOnline) ==
    svcEvent'.op = op /\ svcEvent'.id = id /\ svcEvent'.returned = {savedOnline}

\* the step handles the answer to the remote call of op for the record id
RemoteAnswered(op, id) ==
    svcEvent'.op = op /\ svcEvent'.id = id /\ svcEvent'.kind = "recv"

\* saveSaleWithStatus stores the order_id of the response before it emits
StoresOrderId(id, bag) == \E t \in BagToSet(bag) : t.kind = "saleOrderId" /\ t.id = id

C40_WitnessSavedOnline ==
    /\ svcEvent = SvcReturn("saveSale", -2, TRUE)
    /\ handed = {}

====
